---- MODULE Spec2Model ----
(***************************************************************************)
(* Model of the Merkle claim compiler (GenerateClaims.py) and of the two   *)
(* voting scripts, CalculateCachedVoteCounts.py (step 1) and               *)
(* CalculateVotingWeights.py (step 2), run one after the other.            *)
(*                                                                         *)
(* Representation choices                                                  *)
(*  - a Python str is a sequence of one-character strings;                 *)
(*  - a Python int >= 0 is its sequence of decimal digits without leading  *)
(*    zeros (<<0>> is zero), so amounts keep arbitrary precision;          *)
(*  - a bytes32 value is a sequence of HashLen "bytes", each in            *)
(*    0..ByteMod-1; Python's bytes comparison is lexicographic;            *)
(*  - keccak is a fixed mixing function onto that space;                   *)
(*  - an address has AddrLen hex letters instead of 40;                    *)
(*  - a wallet of the voting scripts is "0x" and one hex letter; a CSV     *)
(*    file is the sequence of its data rows, Snapshot's votes are a        *)
(*    function from proposal id to the set of voters.                      *)
(***************************************************************************)
EXTENDS Integers, Sequences, FiniteSets, TLC

\* ------------------------------------------------------------------ bounds
ByteMod == 8
HashLen == 2
AddrLen == 2
MaxRows == 5
MaxLeaves == 5

HashSpace == ByteMod ^ HashLen

Last(s) == s[Len(s)]

Min(a, b) == IF a <= b THEN a ELSE b

\* ------------------------------------------------------------ characters
DigitChars == <<"0", "1", "2", "3", "4", "5", "6", "7", "8", "9">>

HexChars == <<"0", "1", "2", "3", "4", "5", "6", "7",
              "8", "9", "a", "b", "c", "d", "e", "f">>

UpperHexChars == <<"0", "1", "2", "3", "4", "5", "6", "7",
                   "8", "9", "A", "B", "C", "D", "E", "F">>

Whitespace == {" ", "\t", "\n", "\r"}

IsDigitChar(c) == \E i \in 1..10 : DigitChars[i] = c

DigitVal(c) == (CHOOSE i \in 1..10 : DigitChars[i] = c) - 1

IsHexChar(c) == \E i \in 1..16 : HexChars[i] = c \/ UpperHexChars[i] = c

\* value of one hex character, either case
HexVal(c) == (CHOOSE i \in 1..16 : HexChars[i] = c \/ UpperHexChars[i] = c) - 1

\* str.lower() on one character
LowerChar(c) == IF IsHexChar(c) THEN HexChars[HexVal(c) + 1] ELSE c

\* str.upper() on one character
UpperChar(c) == IF IsHexChar(c) THEN UpperHexChars[HexVal(c) + 1] ELSE c

\* str.strip(): drop leading and trailing whitespace
RECURSIVE lstrip(_)
lstrip(s) ==
    IF s # <<>> /\ s[1] \in Whitespace THEN lstrip(Tail(s)) ELSE s

RECURSIVE rstrip(_)
rstrip(s) ==
    IF s # <<>> /\ Last(s) \in Whitespace
    THEN rstrip(SubSeq(s, 1, Len(s) - 1))
    ELSE s

strip(s) == rstrip(lstrip(s))

\* ------------------------------------------------------------------ hashes
\* big-endian bytes of h, exactly n of them
RECURSIVE ToBytes(_, _)
ToBytes(h, n) ==
    IF n = 0 THEN <<>>
    ELSE Append(ToBytes(h \div ByteMod, n - 1), h % ByteMod)

\* one byte m absorbed into the state h
Mix(h, m) == ((h + m + 1) * (h + 2 * m + 3) + h * h * h + 7) % HashSpace

\* the bytes of msg absorbed from left to right, the first half before the
\* second; the state and the bytes are bound as values (v, m) first, so that
\* the state is computed once, before the bytes that follow it are absorbed
RECURSIVE Absorb(_, _)
Absorb(h, msg) ==
    CHOOSE r \in
        { IF m = <<>> THEN v
          ELSE IF Len(m) = 1 THEN Mix(v, m[1])
          ELSE Absorb(Absorb(v, SubSeq(m, 1, Len(m) \div 2)),
                      SubSeq(m, Len(m) \div 2 + 1, Len(m))) :
          v \in {h}, m \in {msg} } : TRUE

\* keccak(data): a digest of HashLen bytes of the whole message
keccak(msg) == ToBytes(Absorb(1, msg), HashLen)

\* Python's a <= b on bytes: lexicographic, a prefix is smaller
RECURSIVE BytesLeq(_, _)
BytesLeq(a, b) ==
    IF a = <<>> THEN TRUE
    ELSE IF b = <<>> THEN FALSE
    ELSE IF a[1] < b[1] THEN TRUE
    ELSE IF a[1] > b[1] THEN FALSE
    ELSE BytesLeq(Tail(a), Tail(b))

hash_pair_unsorted(a, b) == keccak(a \o b)

hash_pair(a, b) == IF BytesLeq(a, b) THEN keccak(a \o b) ELSE keccak(b \o a)

\* "0x" + bytes.hex(): two hexadecimal digits for each byte
Hex0x(b) ==
    <<"0", "x">> \o
    [i \in 1..(2 * Len(b)) |->
        IF i % 2 = 1 THEN HexChars[(b[(i + 1) \div 2] \div 16) + 1]
        ELSE HexChars[(b[i \div 2] % 16) + 1]]

\* the reader's side of Hex0x: the bytes of a "0x..." string
FromHex0x(s) ==
    [i \in 1..((Len(s) - 2) \div 2) |->
        HexVal(s[2 * i + 1]) * 16 + HexVal(s[2 * i + 2])]

\* ------------------------------------------------------------ tree builder
\* One pass of the inner while loop of build_layers: the next layer of cur.
RECURSIVE NextLayerFrom(_, _)
NextLayerFrom(cur, i) ==
    IF i > Len(cur) THEN <<>>
    ELSE LET left  == cur[i]
             right == IF i + 1 <= Len(cur) THEN cur[i + 1] ELSE cur[i]
         IN  <<hash_pair(left, right)>> \o NextLayerFrom(cur, i + 2)

NextLayer_dropodd(cur) ==
    [k \in 1..(Len(cur) \div 2) |-> hash_pair(cur[2 * k - 1], cur[2 * k])]

NextLayer_carryodd(cur) ==
    [k \in 1..((Len(cur) + 1) \div 2) |->
        IF 2 * k <= Len(cur) THEN hash_pair(cur[2 * k - 1], cur[2 * k])
        ELSE cur[2 * k - 1]]

NextLayer_stride1(cur) ==
    [k \in 1..Len(cur) |->
        hash_pair(cur[k], IF k + 1 <= Len(cur) THEN cur[k + 1] ELSE cur[k])]

NextLayer(cur) == NextLayerFrom(cur, 1)

\* the outer while loop of build_layers, from the layers built so far
RECURSIVE GrowLayers(_)
GrowLayers(ls) ==
    IF Len(Last(ls)) > 1 THEN GrowLayers(Append(ls, NextLayer(Last(ls))))
    ELSE ls

build_layers_unguarded(leaves) ==
    [raised |-> "none", layers |-> GrowLayers(<<leaves>>)]

build_layers_rehash(leaves) ==
    IF leaves = <<>>
    THEN [raised |-> "ValueError", layers |-> <<>>]
    ELSE [raised |-> "none", layers |-> GrowLayers(<<leaves, NextLayer(leaves)>>)]

\* build_layers(leaves): the layers, or the ValueError of an empty input
build_layers(leaves) ==
    IF leaves = <<>>
    THEN [raised |-> "ValueError", layers |-> <<>>]
    ELSE [raised |-> "none", layers |-> GrowLayers(<<leaves>>)]

\* ---------------------------------------------------------- proof extractor
Xor1_plus1(idx) == idx + 1

\* idx ^ 1
Xor1(idx) == IF idx % 2 = 0 THEN idx + 1 ELSE idx - 1

\* The for loop of get_proof from `level` on (levels and idx are 0-based as
\* in the source; sequences are 1-based).  layer[idx] with idx >= len(layer)
\* raises IndexError.
RECURSIVE ProofFrom(_, _, _, _)
ProofFrom(layers, level, idx, proof) ==
    IF level >= Len(layers) - 1
    THEN [raised |-> "none", proof |-> proof]
    ELSE LET layer       == layers[level + 1]
             sibling_idx == Xor1(idx)
         IN  IF sibling_idx < Len(layer)
             THEN ProofFrom(layers, level + 1, idx \div 2,
                            Append(proof, Hex0x(layer[sibling_idx + 1])))
             ELSE IF idx < Len(layer)
             THEN ProofFrom(layers, level + 1, idx \div 2,
                            Append(proof, Hex0x(layer[idx + 1])))
             ELSE [raised |-> "IndexError", proof |-> <<>>]

get_proof_plus1(layers, leaf_index) ==
    LET P[level \in 0..Len(layers)] ==
            IF level >= Len(layers) - 1 THEN <<>>
            ELSE LET layer == layers[level + 1]
                     idx   == leaf_index \div (2 ^ level)
                     sib   == IF idx + 1 < Len(layer) THEN idx + 1 ELSE idx
                 IN  <<Hex0x(layer[Min(sib, Len(layer) - 1) + 1])>> \o P[level + 1]
    IN  [raised |-> "none", proof |-> P[0]]

get_proof_short(layers, leaf_index) ==
    LET r == ProofFrom(layers, 0, leaf_index, <<>>)
    IN  IF r.raised = "none" /\ Len(r.proof) > 1
        THEN [raised |-> "none", proof |-> SubSeq(r.proof, 1, Len(r.proof) - 1)]
        ELSE r

get_proof(layers, leaf_index) == ProofFrom(layers, 0, leaf_index, <<>>)

\* ------------------------------------------------------- amount normalizer
PREC == 80

WEI_DECIMALS == 18

MAX_ETH_DECIMALS == 18

AllZero(ds) == \A i \in 1..Len(ds) : ds[i] = 0

Zeros(n) == [i \in 1..n |-> 0]

\* canonical digits of a non-negative int: no leading zeros, <<0>> is zero
RECURSIVE StripZeros(_)
StripZeros(ds) ==
    IF ds = <<>> THEN <<0>>
    ELSE IF Len(ds) > 1 /\ ds[1] = 0 THEN StripZeros(Tail(ds))
    ELSE ds

\* str.isdigit(): non-empty and every character a decimal digit
isdigit(s) == s # <<>> /\ \A i \in 1..Len(s) : IsDigitChar(s[i])

\* int(s) for a string of decimal digits
IntOfDigits(s) == StripZeros([i \in 1..Len(s) |-> DigitVal(s[i])])

\* value of a short string of decimal digits as a number of the model
RECURSIVE SmallInt(_)
SmallInt(s) ==
    IF s = <<>> THEN 0
    ELSE SmallInt(SubSeq(s, 1, Len(s) - 1)) * 10 + DigitVal(Last(s))

\* str(n) for an int
StrOfInt(ds) == [i \in 1..Len(ds) |-> DigitChars[ds[i] + 1]]

\* digits + 1, with carry
Inc(ds) ==
    IF \A i \in 1..Len(ds) : ds[i] = 9
    THEN <<1>> \o Zeros(Len(ds))
    ELSE LET p == CHOOSE i \in 1..Len(ds) :
                     ds[i] < 9 /\ \A j \in (i + 1)..Len(ds) : ds[j] = 9
         IN  [i \in 1..Len(ds) |->
                IF i < p THEN ds[i] ELSE IF i = p THEN ds[i] + 1 ELSE 0]

\* s.find: first position of a character of cs in s, 0 when there is none
FirstIndex(s, cs) ==
    IF \E i \in 1..Len(s) : s[i] \in cs
    THEN CHOOSE i \in 1..Len(s) : s[i] \in cs /\ \A j \in 1..(i - 1) : s[j] \notin cs
    ELSE 0

LowerLetters == <<"a", "b", "c", "d", "e", "f", "g", "h", "i", "j", "k", "l", "m",
                  "n", "o", "p", "q", "r", "s", "t", "u", "v", "w", "x", "y", "z">>

UpperLetters == <<"A", "B", "C", "D", "E", "F", "G", "H", "I", "J", "K", "L", "M",
                  "N", "O", "P", "Q", "R", "S", "T", "U", "V", "W", "X", "Y", "Z">>

\* str.lower() for the text of a number
LowerText(s) ==
    [i \in 1..Len(s) |->
        IF \E k \in 1..26 : UpperLetters[k] = s[i]
        THEN LowerLetters[CHOOSE k \in 1..26 : UpperLetters[k] = s[i]]
        ELSE s[i]]

\* s.replace("_", "")
NotUnderscore(c) == c # "_"

DropUnderscores(s) == SelectSeq(s, NotUnderscore)

InfinityTexts == { <<"i", "n", "f">>, <<"i", "n", "f", "i", "n", "i", "t", "y">> }

\* nan or snan, then diagnostic digits
IsNaNText(t) ==
    \/ Len(t) >= 3 /\ SubSeq(t, 1, 3) = <<"n", "a", "n">>
       /\ \A i \in 4..Len(t) : IsDigitChar(t[i])
    \/ Len(t) >= 4 /\ SubSeq(t, 1, 4) = <<"s", "n", "a", "n">>
       /\ \A i \in 5..Len(t) : IsDigitChar(t[i])

\* the result of the Decimal constructor: special is "none", "inf" or "nan"
DecimalValue(raised, special, sign, coeff, exponent) ==
    [raised |-> raised, special |-> special, sign |-> sign, coeff |-> coeff,
     exponent |-> exponent]

\* the number with mantissa digits intpart.fracpart and the exponent text
\* expstr (hasexp: the text has an e); the coefficient is exact whatever its
\* length, the constructor does not round
DecimalNumber(sgn, intpart, fracpart, hasexp, expstr) ==
    LET alldig  == intpart \o fracpart
        esigned == expstr # <<>> /\ expstr[1] \in {"+", "-"}
        edigits == IF esigned THEN Tail(expstr) ELSE expstr
    IN  IF \/ alldig = <<>>
           \/ \E i \in 1..Len(alldig) : ~IsDigitChar(alldig[i])
           \/ hasexp /\ ~isdigit(edigits)
        THEN DecimalValue("InvalidOperation", "none", 0, <<0>>, 0)
        ELSE DecimalValue("none", "none", sgn, IntOfDigits(alldig),
                 (IF ~hasexp THEN 0
                  ELSE IF esigned /\ expstr[1] = "-" THEN 0 - SmallInt(edigits)
                  ELSE SmallInt(edigits)) - Len(fracpart))

\* the mantissa, split at its point
DecimalMantissa(sgn, mant, dot, hasexp, expstr) ==
    DecimalNumber(sgn,
                  IF dot = 0 THEN mant ELSE SubSeq(mant, 1, dot - 1),
                  IF dot = 0 THEN <<>> ELSE SubSeq(mant, dot + 1, Len(mant)),
                  hasexp, expstr)

\* the unsigned text, split at its e
DecimalSplit(sgn, body, epos) ==
    IF epos = 0
    THEN DecimalMantissa(sgn, body, FirstIndex(body, {"."}), FALSE, <<>>)
    ELSE DecimalMantissa(sgn, SubSeq(body, 1, epos - 1),
                         FirstIndex(SubSeq(body, 1, epos - 1), {"."}),
                         TRUE, SubSeq(body, epos + 1, Len(body)))

\* the unsigned text: an infinity, a NaN, or a number
DecimalBody(sgn, body, low) ==
    IF low \in InfinityTexts THEN DecimalValue("none", "inf", sgn, <<0>>, 0)
    ELSE IF IsNaNText(low) THEN DecimalValue("none", "nan", sgn, <<0>>, 0)
    ELSE DecimalSplit(sgn, body, FirstIndex(body, {"e", "E"}))

\* the text without blanks and underscores: [sign] body
DecimalText(v) ==
    IF v # <<>> /\ v[1] \in {"+", "-"}
    THEN DecimalBody(IF v[1] = "-" THEN 1 ELSE 0, Tail(v), LowerText(Tail(v)))
    ELSE DecimalBody(0, v, LowerText(v))

\* Decimal(value) for a str: underscores are dropped, then the text is
\* [sign] digits [. digits] [e [sign] digits], or an infinity, or a NaN
Decimal(value) == DecimalText(DropUnderscores(strip(value)))

\* the context's rounding (ROUND_HALF_EVEN) of a coefficient to PREC digits
FixPrec(coeff, exponent) ==
    IF Len(coeff) <= PREC THEN [coeff |-> coeff, exponent |-> exponent]
    ELSE LET kept    == SubSeq(coeff, 1, PREC)
             dropped == SubSeq(coeff, PREC + 1, Len(coeff))
             up      == \/ dropped[1] > 5
                        \/ dropped[1] = 5 /\ ~AllZero(Tail(dropped))
                        \/ dropped[1] = 5 /\ AllZero(Tail(dropped)) /\ Last(kept) % 2 = 1
             rounded == IF up THEN Inc(kept) ELSE kept
         IN  IF Len(rounded) > PREC
             THEN [coeff |-> SubSeq(rounded, 1, PREC),
                   exponent |-> exponent + Len(dropped) + 1]
             ELSE [coeff |-> rounded, exponent |-> exponent + Len(dropped)]

\* d * WEI_PER_ETH in the context of precision PREC
MulWeiPerEth(d) ==
    IF d.coeff = <<0>> THEN [coeff |-> <<0>>, exponent |-> d.exponent]
    ELSE FixPrec(d.coeff \o Zeros(WEI_DECIMALS), d.exponent)

\* wei == wei.to_integral_value()
IsIntegral(w) ==
    \/ w.exponent >= 0
    \/ w.coeff = <<0>>
    \/ /\ 0 - w.exponent < Len(w.coeff)
       /\ AllZero(SubSeq(w.coeff, Len(w.coeff) + w.exponent + 1, Len(w.coeff)))

\* int(wei) of an integral wei
IntOfDecimal(w) ==
    IF w.coeff = <<0>> THEN <<0>>
    ELSE IF w.exponent >= 0 THEN w.coeff \o Zeros(w.exponent)
    ELSE SubSeq(w.coeff, 1, Len(w.coeff) + w.exponent)

Raise(kind) == [raised |-> kind, wei |-> <<0>>]

\* parse_amount_to_wei: the wei amount, or the exception that leaves the
\* function (d < 0 on a NaN signals InvalidOperation; the exponent 'F' of an
\* infinity cannot be compared with 0, a TypeError)
parse_amount_to_wei(value, unit) ==
    LET v == strip(value)
    IN  IF unit = "wei"
        THEN LET u == IF v # <<>> /\ v[1] = "+" THEN Tail(v) ELSE v
             IN  IF ~isdigit(u) THEN Raise("ValueError")
                 ELSE [raised |-> "none", wei |-> IntOfDigits(u)]
        ELSE LET d == Decimal(v)
             IN  IF d.raised # "none" THEN Raise("ValueError")
                 ELSE IF d.special = "nan" THEN Raise("InvalidOperation")
                 ELSE IF d.special = "inf" /\ d.sign = 1 THEN Raise("ValueError")
                 ELSE IF d.special = "inf" THEN Raise("TypeError")
                 ELSE IF d.sign = 1 /\ d.coeff # <<0>> THEN Raise("ValueError")
                 ELSE IF (IF d.exponent < 0 THEN 0 - d.exponent ELSE 0) > MAX_ETH_DECIMALS
                 THEN Raise("ValueError")
                 ELSE LET wei == MulWeiPerEth(d)
                      IN  IF ~IsIntegral(wei) THEN Raise("ValueError")
                          ELSE [raised |-> "none", wei |-> IntOfDecimal(wei)]

\* --------------------------------------------------------------- addresses
\* is the stripped string an address: AddrLen hexadecimal characters
IsAddress(s) == Len(s) = AddrLen /\ \A i \in 1..Len(s) : IsHexChar(s[i])

Lower(s) == [i \in 1..Len(s) |-> LowerChar(s[i])]

\* to_checksum_address: lowercase, then the letter at position i is made
\* upper case when byte i of the keccak of the lowercase text is in the upper
\* half of its range
to_checksum_address(addr) ==
    LET low == Lower(addr)
        h   == keccak([i \in 1..Len(low) |-> HexVal(low[i])])
    IN  [i \in 1..Len(low) |->
            IF h[((i - 1) % HashLen) + 1] * 2 >= ByteMod
            THEN UpperChar(low[i]) ELSE low[i]]

\* ------------------------------------------------------------ leaf encoder
UINT256_MAX ==
    <<1,1,5,7,9,2,0,8,9,2,3,7,3,1,6,1,9,5,4,2,3,5,7,0,9,8,5,0,0,8,6,8,7,9,0,7,
      8,5,3,2,6,9,9,8,4,6,6,5,6,4,0,5,6,4,0,3,9,4,5,7,5,8,4,0,0,7,9,1,3,1,2,9,
      6,3,9,9,3,5>>

\* a <= b on canonical digit sequences
IntLeq(a, b) ==
    \/ Len(a) < Len(b)
    \/ Len(a) = Len(b) /\
       (a = b \/ \E i \in 1..Len(a) :
                    a[i] < b[i] /\ \A j \in 1..(i - 1) : a[j] = b[j])

\* abi.encode(address, uint256): the address left-padded, then the amount.
\* The amount goes in as its canonical digits, which determine it as its 32
\* big-endian bytes do.
encode(account, amount_wei) ==
    Zeros(HashLen) \o [i \in 1..Len(account) |-> HexVal(account[i])] \o amount_wei

\* hash_leaf: the double keccak; index is not part of the leaf
hash_leaf(index, account, amount_wei) == keccak(keccak(encode(account, amount_wei)))

EncodeRaises_never(account, amount_wei) == FALSE

\* eth_abi rejects an amount outside uint256 before anything is hashed
EncodeRaises(account, amount_wei) == ~IntLeq(amount_wei, UINT256_MAX)


\* ------------------------------------------------------------------- state
VARIABLES
    argv_unit,      \* sys.argv[3] after strip().lower(); "absent" when the
                    \* command line does not have three arguments
    input_csv,      \* the input file: [exists, header, rows]
    output_json,    \* the output file: NoFile or the document written
    pc,             \* position of main
    rows,           \* rows read from the input file
    row_idx,        \* position of the row loop (0-based)
    values,         \* included claims: [index, account, amount_wei, meta]
    skipped_zero,
    leaves,
    layers,
    root_hex,
    claims,         \* account -> claim object
    claim_pos,      \* position of the claims loop in values (0-based)
    exit_msg,       \* what ended the run early
    call,           \* the library function called and its arguments
    ret,            \* what that call returned or raised
    vpc,            \* position of the voting pipeline (the two scripts in turn)
    files,          \* the input CSV files of the two voting scripts
    snapshot,       \* Snapshot's votes: proposal id -> voters as the API gives them
    disk,           \* the files the voting scripts write and read back
    decision_groups,\* decision id -> proposals, as <<[id, proposals]>> in dict order
    alias_map,      \* wallet -> master
    slaves,
    loop_idx,       \* position of the loop over decisions or proposals
    wallet_counts,  \* identity -> number of decisions (counts_all in step 2)
    eligible_wallets,
    concluded_decisions,
    total_decisions,
    gpc,            \* position of a call of gql
    attempt,        \* its loop variable
    last_exc,       \* the exception of the last failed attempt
    gql_ret,        \* the data it returned
    clock_log,      \* what the call did so far: its sleeps (ms) and its POSTs
    bpc,            \* position of a call of build_layers run loop by loop
    bl_leaves,      \* its argument
    bl_layers       \* its local variable layers

gql_vars == <<gpc, attempt, last_exc, gql_ret, clock_log>>

pipe_vars == <<vpc, files, snapshot, disk, decision_groups, alias_map, slaves,
               loop_idx, wallet_counts, eligible_wallets, concluded_decisions,
               total_decisions>>

vote_vars == <<pipe_vars, gql_vars>>

loop_vars == <<bpc, bl_leaves, bl_layers>>

vars == <<argv_unit, input_csv, output_json, pc, rows, row_idx, values,
          skipped_zero, leaves, layers, root_hex, claims, claim_pos,
          exit_msg, call, ret, vote_vars, loop_vars>>

main_vars == <<argv_unit, input_csv, output_json, pc, rows, row_idx, values,
               skipped_zero, leaves, layers, root_hex, claims, claim_pos,
               exit_msg>>

NoFile == [written |-> FALSE]

NoCall == [fn |-> "none", leaves |-> <<>>, layers |-> <<>>, leaf_index |-> 0,
           a |-> <<>>, b |-> <<>>, value |-> <<>>, unit |-> "none"]

NoRet == [raised |-> "none", layers |-> <<>>, proof |-> <<>>, hash |-> <<>>,
          wei |-> <<0>>]

NoFiles == [IncludedProposals |-> <<>>, AGIP6M |-> <<>>, GV2AV |-> <<>>,
            WalletAliases |-> <<>>, ActiveProposals |-> <<>>, AGIPActive |-> <<>>]

NoDisk == [VoteCounts |-> <<>>, EligibleWalletsCached |-> <<>>,
           ConcludedDecisionCount |-> <<>>, OutputWeights |-> <<>>,
           written |-> {}]

\* build_layers is not run loop by loop
LoopOff ==
    /\ bpc = "off"
    /\ bl_leaves = <<>>
    /\ bl_layers = <<>>

\* gql is not called on its own
GqlOff ==
    /\ gpc = "off"
    /\ attempt = 0
    /\ last_exc = "none"
    /\ gql_ret = "none"
    /\ clock_log = <<>>

\* the two voting scripts are not run
PipeOff ==
    /\ vpc = "off"
    /\ files = NoFiles
    /\ snapshot = <<>>
    /\ disk = NoDisk
    /\ decision_groups = <<>>
    /\ alias_map = <<>>
    /\ slaves = {}
    /\ loop_idx = 0
    /\ wallet_counts = <<>>
    /\ eligible_wallets = {}
    /\ concluded_decisions = 0
    /\ total_decisions = 0

\* neither the voting scripts nor gql run
VoteOff == PipeOff /\ GqlOff

\* ------------------------------------------------------------------ inputs
Row(w, amt) == [wallet |-> w, rewardTotal |-> amt]

\* the text of an address: two letters, then zeros up to AddrLen characters
Addr(c1, c2) == <<c1, c2>> \o [i \in 1..(AddrLen - 2) |-> "0"]

\* rows of an input table: two spellings of one account (the second with an
\* amount that only the eth unit accepts), two further accounts, a zero
\* amount, surrounding blanks, and four rows that main rejects
InputRows ==
    { Row(Addr("a", "b"), <<"5">>),
      Row(Addr("A", "B"), <<"0", ".", "5">>),
      Row(Addr("b", "a"), <<"0">>),
      Row(<<" ">> \o Addr("c", "d"), <<"+", "1", "2", " ">>),
      Row(<<>>, <<"1">>),
      Row(Addr("z", "z"), <<"1">>),
      Row(Addr("c", "d"), <<"-", "1">>),
      Row(Addr("c", "d"), <<" ">>) }

\* does main accept the row (it reads no row after one it rejects)
RowAccepted(r, unit) ==
    /\ IsAddress(strip(r.wallet))
    /\ strip(r.rewardTotal) # <<>>
    /\ parse_amount_to_wei(strip(r.rewardTotal), unit).raised = "none"

AcceptedRows(unit) == { r \in InputRows : RowAccepted(r, unit) }

\* input tables: every row but the last is one main accepts
InputTables(unit) ==
    {<<>>} \cup
    UNION { { Append(t, r) : t \in [1..(n - 1) -> AcceptedRows(unit)], r \in InputRows } :
            n \in 1..MaxRows }

\* tables with an amount at and just beyond the uint256 range
OverflowTables ==
    LET ok   == Row(Addr("a", "b"), <<"5">>)
        max  == Row(Addr("b", "a"), StrOfInt(UINT256_MAX))
        over == Row(Addr("b", "a"), StrOfInt(Inc(UINT256_MAX)))
    IN  { <<max>>, <<ok, max>>, <<over>>, <<ok, over>>, <<over, ok>>,
          <<ok, over, Row(Addr("z", "z"), <<"1">>)>> }

BothColumns == {"wallet", "rewardTotal"}

\* command lines and files that end main before the row loop
BrokenInputs ==
    { [unit |-> "absent", exists |-> TRUE, header |-> BothColumns, rows |-> <<>>],
      [unit |-> "gwei", exists |-> TRUE,  header |-> BothColumns, rows |-> <<>>],
      [unit |-> "wei",  exists |-> FALSE, header |-> {},          rows |-> <<>>],
      [unit |-> "wei",  exists |-> TRUE,  header |-> {},          rows |-> <<>>],
      [unit |-> "eth",  exists |-> TRUE,  header |-> {"rewardTotal"},
       rows |-> <<Row(<<>>, <<"1">>)>>],
      [unit |-> "eth",  exists |-> TRUE,  header |-> {"wallet"},
       rows |-> <<Row(Addr("a", "b"), <<>>)>>] }

MainInit(inp) ==
    /\ argv_unit = inp.unit
    /\ input_csv = [exists |-> inp.exists, header |-> inp.header, rows |-> inp.rows]
    /\ output_json = NoFile
    /\ pc = "start"
    /\ rows = <<>>
    /\ row_idx = 0
    /\ values = <<>>
    /\ skipped_zero = 0
    /\ leaves = <<>>
    /\ layers = <<>>
    /\ root_hex = <<>>
    /\ claims = <<>>
    /\ claim_pos = 0
    /\ exit_msg = "none"

\* a run of main on some command line and input file
RunInit ==
    /\ \/ \E inp \in BrokenInputs : MainInit(inp)
       \/ \E unit \in {"eth", "wei"} : \E t \in InputTables(unit) \cup OverflowTables :
             MainInit([unit |-> unit, exists |-> TRUE, header |-> BothColumns,
                       rows |-> t])
    /\ call = NoCall
    /\ ret = NoRet
    /\ LoopOff
    /\ VoteOff

\* -------------------------------------------------------------------- main
Exit(msg) ==
    /\ pc' = "exit"
    /\ exit_msg' = msg

\* argument check, reading of the CSV and check of its header
ReadInput ==
    /\ pc = "start"
    /\ IF argv_unit = "absent"
       THEN Exit("usage") /\ rows' = rows
       ELSE IF argv_unit \notin {"eth", "wei"}
       THEN Exit("unit must be eth or wei") /\ rows' = rows
       ELSE IF ~input_csv.exists
       THEN Exit("Input CSV not found") /\ rows' = rows
       ELSE IF input_csv.header = {}
       THEN Exit("Input CSV appears to have no header row") /\ rows' = rows
       ELSE IF input_csv.rows = <<>>
       THEN Exit("Input CSV has no data rows") /\ rows' = input_csv.rows
       ELSE IF "wallet" \notin input_csv.header
       THEN Exit("Missing required column wallet") /\ rows' = input_csv.rows
       ELSE IF "rewardTotal" \notin input_csv.header
       THEN Exit("Missing required column rewardTotal") /\ rows' = input_csv.rows
       ELSE /\ pc' = "rows"
            /\ rows' = input_csv.rows
            /\ exit_msg' = exit_msg
    /\ UNCHANGED <<argv_unit, input_csv, output_json, row_idx, values,
                   skipped_zero, leaves, layers, root_hex, claims, claim_pos,
                   call, ret>>
    /\ UNCHANGED <<vote_vars, loop_vars>>

IsZeroAmount_never(amount_wei) == FALSE

\* amount_wei == 0
IsZeroAmount(amount_wei) == amount_wei = <<0>>

NextIndex_row(vals) == row_idx

\* the index of the next included claim: len(values)
NextIndex(vals) == Len(vals)

\* one iteration of the row loop
ProcessRow ==
    /\ pc = "rows"
    /\ row_idx < Len(rows)
    /\ LET r        == rows[row_idx + 1]
           addr_raw == strip(r.wallet)
           amt_raw  == strip(r.rewardTotal)
           parsed   == parse_amount_to_wei(amt_raw, argv_unit)
       IN  IF addr_raw = <<>>
           THEN Exit("empty wallet address")
                /\ UNCHANGED <<row_idx, values, skipped_zero>>
           ELSE IF ~IsAddress(addr_raw)
           THEN Exit("invalid address")
                /\ UNCHANGED <<row_idx, values, skipped_zero>>
           ELSE IF amt_raw = <<>>
           THEN Exit("empty rewardTotal")
                /\ UNCHANGED <<row_idx, values, skipped_zero>>
           ELSE IF parsed.raised # "none"
           THEN Exit("bad rewardTotal")
                /\ UNCHANGED <<row_idx, values, skipped_zero>>
           ELSE IF IsZeroAmount(parsed.wei)
           THEN /\ skipped_zero' = skipped_zero + 1
                /\ row_idx' = row_idx + 1
                /\ UNCHANGED <<values, pc, exit_msg>>
           ELSE /\ values' = Append(values,
                                [index      |-> NextIndex(values),
                                 account    |-> to_checksum_address(addr_raw),
                                 amount_wei |-> parsed.wei,
                                 meta       |-> r])
                /\ row_idx' = row_idx + 1
                /\ UNCHANGED <<skipped_zero, pc, exit_msg>>
    /\ UNCHANGED <<argv_unit, input_csv, output_json, rows, leaves, layers,
                   root_hex, claims, claim_pos, call, ret>>
    /\ UNCHANGED <<vote_vars, loop_vars>>

\* after the row loop: nothing left to commit to ends the run
RowsDone ==
    /\ pc = "rows"
    /\ row_idx = Len(rows)
    /\ IF values = <<>>
       THEN Exit("All rows were skipped")
       ELSE pc' = "tree" /\ exit_msg' = exit_msg
    /\ UNCHANGED <<argv_unit, input_csv, output_json, rows, row_idx, values,
                   skipped_zero, leaves, layers, root_hex, claims, claim_pos,
                   call, ret>>
    /\ UNCHANGED <<vote_vars, loop_vars>>

\* leaves, layers and root; an exception of the encoder is not caught
BuildTree ==
    /\ pc = "tree"
    /\ LET lv == [k \in 1..Len(values) |->
                    hash_leaf(values[k].index, values[k].account,
                              values[k].amount_wei)]
           bl == build_layers(lv)
       IN  IF \E k \in 1..Len(values) :
                 EncodeRaises(values[k].account, values[k].amount_wei)
           THEN Exit("Traceback: ValueOutOfBounds")
                /\ UNCHANGED <<leaves, layers, root_hex>>
           ELSE IF bl.raised # "none"
           THEN Exit("Traceback: ValueError")
                /\ leaves' = lv
                /\ UNCHANGED <<layers, root_hex>>
           ELSE /\ leaves' = lv
                /\ layers' = bl.layers
                /\ root_hex' = Hex0x(Last(bl.layers)[1])
                /\ pc' = "claims"
                /\ exit_msg' = exit_msg
    /\ UNCHANGED <<argv_unit, input_csv, output_json, rows, row_idx, values,
                   skipped_zero, claims, claim_pos, call, ret>>
    /\ UNCHANGED <<vote_vars, loop_vars>>

\* decimal digits of a small number of the model
RECURSIVE DigitsOfNat(_)
DigitsOfNat(n) ==
    IF n < 10 THEN <<n>> ELSE Append(DigitsOfNat(n \div 10), n % 10)

\* number of zeros at the end of ds
TrailingZeros(ds) ==
    IF AllZero(ds) THEN Len(ds)
    ELSE Len(ds) - (CHOOSE i \in 1..Len(ds) :
                       ds[i] # 0 /\ \A j \in (i + 1)..Len(ds) : ds[j] = 0)

\* Decimal(amount_wei) / WEI_PER_ETH for 0 < amount_wei <= UINT256_MAX: the
\* quotient is exact and fits the precision, so the result is the amount with
\* up to WEI_DECIMALS trailing zeros traded for the exponent
DivWeiPerEth(amount_wei) ==
    LET t == Min(TrailingZeros(amount_wei), WEI_DECIMALS)
    IN  [coeff    |-> SubSeq(amount_wei, 1, Len(amount_wei) - t),
         exponent |-> t - WEI_DECIMALS]

\* str(d) of a positive Decimal with exponent <= 0: plain notation down to
\* 0.000001, scientific notation below
StrOfDecimal(d) ==
    LET digits     == StrOfInt(d.coeff)
        leftdigits == d.exponent + Len(digits)
        dotplace   == IF leftdigits > 0 - 6 THEN leftdigits ELSE 1
        intpart    == IF dotplace <= 0 THEN <<"0">>
                      ELSE SubSeq(digits, 1, Min(dotplace, Len(digits)))
        fracpart   == IF dotplace <= 0
                      THEN <<".">> \o [i \in 1..(0 - dotplace) |-> "0"] \o digits
                      ELSE IF dotplace >= Len(digits) THEN <<>>
                      ELSE <<".">> \o SubSeq(digits, dotplace + 1, Len(digits))
        exptext    == IF leftdigits = dotplace THEN <<>>
                      ELSE <<"E", "-">> \o StrOfInt(DigitsOfNat(dotplace - leftdigits))
    IN  intpart \o fracpart \o exptext

DictSet_keepfirst(d, k, v) ==
    [x \in (DOMAIN d) \cup {k} |-> IF x \in DOMAIN d THEN d[x] ELSE v]

\* dict assignment d[k] = v; a dict is a function on its keys
DictSet(d, k, v) == [x \in (DOMAIN d) \cup {k} |-> IF x = k THEN v ELSE d[x]]

\* the claim object of one included claim
ClaimObj(v, proof) ==
    LET obj == [index     |-> StrOfInt(DigitsOfNat(v.index)),
                amountWei |-> StrOfInt(v.amount_wei),
                proof     |-> proof,
                csv       |-> v.meta]
    IN  IF argv_unit = "eth"
        THEN [f \in (DOMAIN obj) \cup {"amountEth"} |->
                 IF f = "amountEth" THEN StrOfDecimal(DivWeiPerEth(v.amount_wei))
                 ELSE obj[f]]
        ELSE obj

\* one iteration of the claims loop
BuildClaim ==
    /\ pc = "claims"
    /\ claim_pos < Len(values)
    /\ LET v  == values[claim_pos + 1]
           gp == get_proof(layers, v.index)
       IN  IF gp.raised # "none"
           THEN Exit("Traceback: IndexError")
                /\ UNCHANGED <<claims, claim_pos>>
           ELSE /\ claims' = DictSet(claims, v.account, ClaimObj(v, gp.proof))
                /\ claim_pos' = claim_pos + 1
                /\ UNCHANGED <<pc, exit_msg>>
    /\ UNCHANGED <<argv_unit, input_csv, output_json, rows, row_idx, values,
                   skipped_zero, leaves, layers, root_hex, call, ret>>
    /\ UNCHANGED <<vote_vars, loop_vars>>

WriteDocument_early ==
    /\ pc = "claims"
    /\ output_json' =
          [written    |-> TRUE,
           merkleRoot |-> root_hex,
           unit       |-> "wei",
           leafEncoding |-> <<"address", "uint256">>,
           claims     |-> claims,
           stats      |-> [includedWallets          |-> Len(values),
                           skippedZeroAmountWallets |-> skipped_zero,
                           inputRows                |-> Len(rows)]]
    /\ pc' = "done"
    /\ UNCHANGED <<argv_unit, input_csv, rows, row_idx, values, skipped_zero,
                   leaves, layers, root_hex, claims, claim_pos, exit_msg,
                   call, ret>>
    /\ UNCHANGED <<vote_vars, loop_vars>>

\* the document is assembled and written once the claims loop is over
WriteDocument ==
    /\ pc = "claims"
    /\ claim_pos = Len(values)
    /\ output_json' =
          [written    |-> TRUE,
           merkleRoot |-> root_hex,
           unit       |-> "wei",
           leafEncoding |-> <<"address", "uint256">>,
           claims     |-> claims,
           stats      |-> [includedWallets          |-> Len(values),
                           skippedZeroAmountWallets |-> skipped_zero,
                           inputRows                |-> Len(rows)]]
    /\ pc' = "done"
    /\ UNCHANGED <<argv_unit, input_csv, rows, row_idx, values, skipped_zero,
                   leaves, layers, root_hex, claims, claim_pos, exit_msg,
                   call, ret>>
    /\ UNCHANGED <<vote_vars, loop_vars>>

\* ------------------------------------------- the tree functions on their own
NumLeafVals == 3

LeafVals == { ToBytes((k * 13) % HashSpace, HashLen) : k \in 0..(NumLeafVals - 1) }

LeafLists == UNION { [1..n -> LeafVals] : n \in 0..MaxLeaves }

NumPairVals == 64

\* operands of hash_pair: NumPairVals values spread over the hash space
PairVals == { ToBytes((k * 37) % HashSpace, HashLen) : k \in 0..(NumPairVals - 1) }

\* n copies of the character c
Rep(c, n) == [i \in 1..n |-> c]

\* amount texts for calls of parse_amount_to_wei: integers, signs, points,
\* exponents, blanks, underscores, specials, 18 and 19 fractional digits, a
\* number of more than PREC significant digits, and 2^256
AmountTexts ==
    { <<"0">>,
      <<"5">>,
      <<"+", "3">>,
      <<"-", "1">>,
      <<>>,
      <<"1", ".", "5">>,
      <<".", "5">>,
      <<"5", ".">>,
      <<" ", "1", "2", " ">>,
      <<"1", " ", "2">>,
      <<"+", "+", "1">>,
      <<"+">>,
      <<"1", "e", "2">>,
      <<"1", "e", "-", "1", "8">>,
      <<"1", "2", "a">>,
      <<"-", "0">>,
      <<"1", "_", "0", "0", "0">>,
      <<"n", "a", "n">>,
      <<"i", "n", "f">>,
      <<"0", ".", "5">>,
      <<"1", ".">> \o Rep("0", WEI_DECIMALS - 1) \o <<"1">>,
      <<"1", ".">> \o Rep("0", WEI_DECIMALS) \o <<"1">>,
      <<"1">> \o Rep("0", PREC - WEI_DECIMALS - 1) \o <<".">> \o
          Rep("0", WEI_DECIMALS - 1) \o <<"1">>,
      <<"1">> \o Rep("0", PREC - WEI_DECIMALS) \o <<".">> \o
          Rep("0", WEI_DECIMALS - 1) \o <<"1">>,
      StrOfInt(UINT256_MAX),
      StrOfInt(Inc(UINT256_MAX)) }

Pending == [NoRet EXCEPT !.raised = "pending"]

MainOff ==
    /\ argv_unit = "wei"
    /\ input_csv = [exists |-> FALSE, header |-> {}, rows |-> <<>>]
    /\ output_json = NoFile
    /\ pc = "off"
    /\ rows = <<>>
    /\ row_idx = 0
    /\ values = <<>>
    /\ skipped_zero = 0
    /\ leaves = <<>>
    /\ layers = <<>>
    /\ root_hex = <<>>
    /\ claims = <<>>
    /\ claim_pos = 0
    /\ exit_msg = "none"

TreeInit ==
    /\ MainOff
    /\ VoteOff
    /\ ret = Pending
    /\ LoopOff
    /\ \/ \E lv \in LeafLists :
             call = [NoCall EXCEPT !.fn = "build_layers", !.leaves = lv]
       \/ \E a \in PairVals : \E b \in PairVals :
             call = [NoCall EXCEPT !.fn = "hash_pair", !.a = a, !.b = b]
       \/ \E t \in AmountTexts : \E u \in {"eth", "wei"} :
             call = [NoCall EXCEPT !.fn = "parse_amount_to_wei", !.value = t,
                                   !.unit = u]

CallBuildLayers ==
    /\ call.fn = "build_layers"
    /\ ret = Pending
    /\ LET r == build_layers(call.leaves)
       IN  ret' = [NoRet EXCEPT !.raised = r.raised, !.layers = r.layers]
    /\ UNCHANGED <<call, main_vars>>
    /\ UNCHANGED <<vote_vars, loop_vars>>

\* get_proof on layers that build_layers returned, for any index
CallGetProof ==
    /\ call.fn = "build_layers"
    /\ ret.raised = "none"
    /\ \E i \in 0..(MaxLeaves + 1) :
          /\ call' = [call EXCEPT !.fn = "get_proof", !.layers = ret.layers,
                                  !.leaf_index = i]
          /\ LET r == get_proof(ret.layers, i)
             IN  ret' = [NoRet EXCEPT !.raised = r.raised, !.proof = r.proof]
    /\ UNCHANGED main_vars
    /\ UNCHANGED <<vote_vars, loop_vars>>

CallHashPair ==
    /\ call.fn = "hash_pair"
    /\ ret = Pending
    /\ ret' = [NoRet EXCEPT !.hash = hash_pair(call.a, call.b)]
    /\ UNCHANGED <<call, main_vars>>
    /\ UNCHANGED <<vote_vars, loop_vars>>

CallParseAmount ==
    /\ call.fn = "parse_amount_to_wei"
    /\ ret = Pending
    /\ LET r == parse_amount_to_wei(call.value, call.unit)
       IN  ret' = [NoRet EXCEPT !.raised = r.raised, !.wei = r.wei]
    /\ UNCHANGED <<call, main_vars>>
    /\ UNCHANGED <<vote_vars, loop_vars>>

\* ------------------------------------------------------ the voting scripts
\* order of the characters of the model by code point
CodeOrder == <<" ">> \o DigitChars \o UpperLetters \o LowerLetters

Ord(c) == CHOOSE i \in 1..Len(CodeOrder) : CodeOrder[i] = c

\* a < b for two str
TextLess(a, b) ==
    \E i \in 1..(Min(Len(a), Len(b)) + 1) :
        /\ \A j \in 1..(i - 1) : a[j] = b[j]
        /\ IF i > Len(a) THEN i <= Len(b)
           ELSE i <= Len(b) /\ Ord(a[i]) < Ord(b[i])

\* normalize_addr: strip, then lowercase
normalize_addr(addr) == IF addr = <<>> THEN <<>> ELSE LowerText(strip(addr))

\* d.get(k, default)
DictGet(d, k, default) == IF k \in DOMAIN d THEN d[k] ELSE default

\* the ids of the non-blank rows of a proposals file, in file order
load_proposals_from_csv(ids) ==
    LET NonBlank(pid) == pid # <<>>
    IN  SelectSeq([i \in 1..Len(ids) |-> strip(ids[i])], NonBlank)

\* av_id -> the gv_ids of its rows, in file order
RECURSIVE load_av_to_gvs(_)
load_av_to_gvs(gvrows) ==
    IF gvrows = <<>> THEN <<>>
    ELSE LET before == load_av_to_gvs(SubSeq(gvrows, 1, Len(gvrows) - 1))
             gv_id  == strip(Last(gvrows).gv_id)
             av_id  == strip(Last(gvrows).av_id)
         IN  IF gv_id = <<>> \/ av_id = <<>> THEN before
             ELSE DictSet(before, av_id,
                          Append(DictGet(before, av_id, <<>>), gv_id))

\* position of decision id in the groups, 0 when it has no group yet
GroupIndex(groups, id) ==
    IF \E i \in 1..Len(groups) : groups[i].id = id
    THEN CHOOSE i \in 1..Len(groups) : groups[i].id = id
    ELSE 0

\* a dict in insertion order: a later proposal with the id of an earlier one
\* replaces the earlier group in its place
RECURSIVE build_decision_groups(_, _)
build_decision_groups(included_proposals, av_to_gvs) ==
    IF included_proposals = <<>> THEN <<>>
    ELSE LET n      == Len(included_proposals)
             groups == build_decision_groups(SubSeq(included_proposals, 1, n - 1),
                                             av_to_gvs)
             av_id  == included_proposals[n]
             group  == [id |-> av_id,
                        proposals |-> <<av_id>> \o DictGet(av_to_gvs, av_id, <<>>)]
             at     == GroupIndex(groups, av_id)
         IN  IF at = 0 THEN Append(groups, group)
             ELSE [groups EXCEPT ![at] = group]

NoAliases == [alias_map |-> <<>>, masters |-> {}, slaves |-> {}, first_row |-> TRUE]

\* the non-blank cells of a row, stripped
RawCells(row) ==
    LET NonBlank(c) == c # <<>>
    IN  SelectSeq([i \in 1..Len(row) |-> strip(row[i])], NonBlank)

StartsWith0x(c) == Len(c) >= 2 /\ LowerText(SubSeq(c, 1, 2)) = <<"0", "x">>

\* one row of WalletAliases.csv
AliasRow_keepfirst(acc, row) ==
    LET raw_cells == RawCells(row)
        cells     == [i \in 1..Len(raw_cells) |-> normalize_addr(raw_cells[i])]
        master    == cells[1]
        olds      == {cells[i] : i \in 2..Len(cells)} \ {<<>>, master}
        keys      == DOMAIN acc.alias_map \cup {master} \cup olds
    IN  IF raw_cells = <<>> THEN acc
        ELSE IF acc.first_row /\ ~StartsWith0x(raw_cells[1])
             THEN [acc EXCEPT !.first_row = FALSE]
        ELSE IF Len(raw_cells) < 2 THEN [acc EXCEPT !.first_row = FALSE]
        ELSE [alias_map |-> [w \in keys |->
                                IF w \in DOMAIN acc.alias_map THEN acc.alias_map[w]
                                ELSE master],
              masters   |-> acc.masters \cup {master},
              slaves    |-> acc.slaves \cup olds,
              first_row |-> FALSE]

AliasRow(acc, row) ==
    LET raw_cells == RawCells(row)
        cells     == [i \in 1..Len(raw_cells) |-> normalize_addr(raw_cells[i])]
        master    == cells[1]
        olds      == {cells[i] : i \in 2..Len(cells)} \ {<<>>, master}
        keys      == DOMAIN acc.alias_map \cup {master} \cup olds
    IN  IF raw_cells = <<>> THEN acc
        ELSE IF acc.first_row /\ ~StartsWith0x(raw_cells[1])
             THEN [acc EXCEPT !.first_row = FALSE]
        ELSE IF Len(raw_cells) < 2 THEN [acc EXCEPT !.first_row = FALSE]
        ELSE [alias_map |-> [w \in keys |->
                                IF w \in olds THEN master
                                ELSE IF w \in DOMAIN acc.alias_map
                                     THEN acc.alias_map[w]
                                ELSE master],
              masters   |-> acc.masters \cup {master},
              slaves    |-> acc.slaves \cup olds,
              first_row |-> FALSE]

RECURSIVE load_alias_map(_)
load_alias_map(aliasrows) ==
    IF aliasrows = <<>> THEN NoAliases
    ELSE AliasRow(load_alias_map(SubSeq(aliasrows, 1, Len(aliasrows) - 1)),
                  Last(aliasrows))

\* the voters of a proposal, normalized; a vote without voter is left out
iter_votes_for_proposal(proposal_id) ==
    {normalize_addr(voter) :
        voter \in DictGet(snapshot, proposal_id, {}) \ {<<>>}}

\* the identities that voted on at least one proposal of the list
identities_voted(proposals, aliases) ==
    {DictGet(aliases, voter, voter) :
        voter \in UNION {iter_votes_for_proposal(proposals[i]) :
                            i \in 1..Len(proposals)}}

\* counts[identity] = counts.get(identity, 0) + 1 for each identity of the set
AddOne(counts, identities) ==
    [w \in DOMAIN counts \cup identities |->
        IF w \in identities THEN DictGet(counts, w, 0) + 1 ELSE counts[w]]

\* one vote per proposal of the group instead of one per decision
RECURSIVE CountGroup_perproposal(_, _, _)
CountGroup_perproposal(counts, proposals, aliases) ==
    IF proposals = <<>> THEN counts
    ELSE CountGroup_perproposal(
             AddOne(counts, identities_voted(<<proposals[1]>>, aliases)),
             Tail(proposals), aliases)

\* one pass of the loop of build_decision_counts
CountGroup(counts, proposals, aliases) ==
    AddOne(counts, identities_voted(proposals, aliases))

\* eligibility through the alias map instead of per wallet
eligible_from_viaalias(proposals) ==
    {DictGet(alias_map, voter, voter) :
        voter \in UNION {iter_votes_for_proposal(proposals[i]) :
                            i \in 1..Len(proposals)}}

\* compute_eligible_wallets_per_wallet, compute_newly_eligible_from_AGIPActive
eligible_from(proposals) ==
    UNION {iter_votes_for_proposal(proposals[i]) : i \in 1..Len(proposals)}

\* rows.sort(key=lambda x: (-x[1], x[0])) on rows [wallet, n]
RowBefore(r1, r2) ==
    \/ r1.n > r2.n
    \/ r1.n = r2.n /\ TextLess(r1.wallet, r2.wallet)

RECURSIVE SortRows(_)
SortRows(rowset) ==
    IF rowset = {} THEN <<>>
    ELSE LET first == CHOOSE r \in rowset :
                          \A o \in rowset \ {r} : RowBefore(r, o)
         IN  <<first>> \o SortRows(rowset \ {first})

\* sorted(wallets)
RECURSIVE SortTexts(_)
SortTexts(texts) ==
    IF texts = {} THEN <<>>
    ELSE LET first == CHOOSE t \in texts : \A o \in texts \ {t} : TextLess(t, o)
         IN  <<first>> \o SortTexts(texts \ {first})

\* the count written for a wallet when slaves keep their count
VoteCountOf_keepslaves(wallet, counts, slaveset) == DictGet(counts, wallet, 0)

\* the count written for a wallet: a slave is written with 0
VoteCountOf(wallet, counts, slaveset) ==
    IF wallet \in slaveset THEN 0 ELSE DictGet(counts, wallet, 0)

\* the data rows of VoteCounts.csv
write_vote_counts_csv(counts, slaveset) ==
    LET sorted == SortRows({[wallet |-> w, n |-> VoteCountOf(w, counts, slaveset)] :
                               w \in DOMAIN counts \cup slaveset})
    IN  [i \in 1..Len(sorted) |->
            [wallet        |-> sorted[i].wallet,
             num_proposals |-> StrOfInt(DigitsOfNat(sorted[i].n))]]

\* the data rows of EligibleWalletsCached.csv
write_eligible_wallets_csv(wallets) == SortTexts(wallets)

\* the text of ConcludedDecisionCount.txt
write_concluded_decision_count(n) == StrOfInt(DigitsOfNat(n))

\* the count of a row of VoteCounts.csv, int(float(text)); 0 when it is not
\* a number (the files of the model hold str(int) only)
CountOfText(t) == IF isdigit(strip(t)) THEN SmallInt(strip(t)) ELSE 0

\* wallet -> num_proposals; a later row of a wallet replaces an earlier one
RECURSIVE load_vote_counts(_)
load_vote_counts(countrows) ==
    IF countrows = <<>> THEN <<>>
    ELSE LET before == load_vote_counts(SubSeq(countrows, 1, Len(countrows) - 1))
             w      == normalize_addr(Last(countrows).wallet)
         IN  IF w = <<>> THEN before
             ELSE DictSet(before, w, CountOfText(Last(countrows).num_proposals))

\* the wallets of the data rows of a one-column file
load_wallet_list_csv(walletrows) ==
    {normalize_addr(walletrows[i]) : i \in 1..Len(walletrows)} \ {<<>>}

\* int(text) of a file holding one non-negative integer
read_int_file(text) == SmallInt(strip(text))

\* f"{w:.6f}" for w = n / total: the nearest multiple of 10^-6
FormatWeight(n, total) ==
    LET micro == IF total > 0 THEN (2 * n * 1000000 + total) \div (2 * total) ELSE 0
        frac  == DigitsOfNat(micro % 1000000)
    IN  StrOfInt(DigitsOfNat(micro \div 1000000)) \o <<".">>
            \o StrOfInt(Zeros(6 - Len(frac)) \o frac)

\* the sort key of a weight: weights of one file share the denominator, so
\* -weight orders as -n does, and every weight is 0.0 when the total is 0
WeightKey(n, total) == IF total > 0 THEN n ELSE 0

\* the row of a wallet when a slave keeps its count
WeightRow_keepslaves(wallet, counts, slaveset, total) ==
    [wallet |-> wallet, n |-> WeightKey(DictGet(counts, wallet, 0), total),
     count |-> DictGet(counts, wallet, 0), total |-> total]

\* the row of a wallet before sorting: a slave is forced to (0, 0.0)
WeightRow(wallet, counts, slaveset, total) ==
    IF wallet \in slaveset
    THEN [wallet |-> wallet, n |-> 0, count |-> 0, total |-> 0]
    ELSE [wallet |-> wallet, n |-> WeightKey(DictGet(counts, wallet, 0), total),
          count |-> DictGet(counts, wallet, 0), total |-> total]

\* the data rows of OutputWeights.csv, sorted by (-weight, wallet)
write_output_weights(eligible, counts, slaveset, total) ==
    LET sorted == SortRows({WeightRow(w, counts, slaveset, total) : w \in eligible})
    IN  [i \in 1..Len(sorted) |->
            [wallet        |-> sorted[i].wallet,
             num_proposals |-> StrOfInt(DigitsOfNat(sorted[i].count)),
             weight        |-> FormatWeight(sorted[i].count, sorted[i].total)]]

\* the total that leaves the active proposals out
TotalDecisions_concluded(concluded, active_proposals) == concluded

\* total decisions used for the weight: concluded + active
TotalDecisions(concluded, active_proposals) == concluded + Len(active_proposals)

\* ---------------------------------------------------- inputs of the voting run
NumWallets == 3

MaxVoters == 2

WalletText(k) == <<"0", "x", HexChars[10 + k]>>

\* a voter as the API gives it, with upper-case letters
ApiText(k) == <<"0", "X", UpperHexChars[10 + k]>>

VoterSets(m) ==
    {{ApiText(k) : k \in ks} : ks \in {x \in SUBSET (1..NumWallets) : Cardinality(x) <= m}}

A1 == <<"A", "1">>

A2 == <<"A", "2">>

G1 == <<"G", "1">>

P3 == <<"P", "3">>

\* no voter, or one of the given wallets alone
LoneVoters(ks) == {{}} \cup {{ApiText(k)} : k \in ks}

Snapshots ==
    {(A1 :> v1) @@ (G1 :> v2) @@ (A2 :> v3) @@ (P3 :> v4) :
        v1 \in VoterSets(MaxVoters), v2 \in VoterSets(1),
        v3 \in LoneVoters({1, 2}), v4 \in LoneVoters({2, 3})}

ChainAliases == <<<<WalletText(1), WalletText(2)>>, <<WalletText(2), WalletText(3)>>>>

AliasFiles ==
    {<<>>,
     <<<<<<"m", "a", "s", "t", "e", "r">>, <<"o", "l", "d">>>>,
       <<WalletText(1), WalletText(2)>>>>,
     <<<<ApiText(1), <<" ">> \o WalletText(2) \o <<" ">>>>>>,
     ChainAliases,
     <<<<WalletText(2), WalletText(3)>>, <<WalletText(1), WalletText(2)>>>>,
     <<<<WalletText(1), WalletText(3)>>, <<WalletText(2), WalletText(3)>>>>,
     <<<<WalletText(1), WalletText(2), WalletText(3)>>>>,
     <<<<WalletText(1), WalletText(1)>>, <<WalletText(2)>>,
       <<<<" ">>, WalletText(3), WalletText(1)>>>>}

MainFiles(aliases) ==
    [IncludedProposals |-> <<A1, A2>>,
     AGIP6M            |-> <<A1>>,
     GV2AV             |-> <<[gv_id |-> G1, av_id |-> A1]>>,
     WalletAliases     |-> aliases,
     ActiveProposals   |-> <<P3>>,
     AGIPActive        |-> <<P3>>]

SideFiles(aliases) ==
    {[IncludedProposals |-> <<A1>>, AGIP6M |-> <<>>, GV2AV |-> <<>>,
      WalletAliases |-> aliases, ActiveProposals |-> <<>>, AGIPActive |-> <<>>],
     [IncludedProposals |-> <<A1, <<" ">>, <<" ">> \o A1>>,
      AGIP6M |-> <<A1, A2>>,
      GV2AV |-> <<[gv_id |-> G1, av_id |-> A1], [gv_id |-> <<>>, av_id |-> A2]>>,
      WalletAliases |-> aliases, ActiveProposals |-> <<P3, A2>>,
      AGIPActive |-> <<>>],
     [IncludedProposals |-> <<<<" ">>>>, AGIP6M |-> <<A1>>, GV2AV |-> <<>>,
      WalletAliases |-> aliases, ActiveProposals |-> <<P3>>, AGIPActive |-> <<P3>>]}

VoteFiles == {MainFiles(al) : al \in AliasFiles} \cup SideFiles(ChainAliases)

\* step 1 (CalculateCachedVoteCounts) is about to run, step 2
\* (CalculateVotingWeights) runs on its outputs afterwards
VoteInit ==
    /\ MainOff
    /\ GqlOff
    /\ call = NoCall
    /\ ret = NoRet
    /\ LoopOff
    /\ vpc = "step1"
    /\ files \in VoteFiles
    /\ snapshot \in Snapshots
    /\ disk = NoDisk
    /\ decision_groups = <<>>
    /\ alias_map = <<>>
    /\ slaves = {}
    /\ loop_idx = 0
    /\ wallet_counts = <<>>
    /\ eligible_wallets = {}
    /\ concluded_decisions = 0
    /\ total_decisions = 0

\* files for step 2 that step 1 did not write: a count above the concluded
\* decisions, a count that is not a number, a wallet in two rows, a total of 0
HandDisks ==
    {[NoDisk EXCEPT
         !.VoteCounts = <<[wallet |-> WalletText(1), num_proposals |-> <<"3">>],
                          [wallet |-> ApiText(2), num_proposals |-> <<"1">>]>>,
         !.EligibleWalletsCached = <<WalletText(1), WalletText(2)>>,
         !.ConcludedDecisionCount = c] : c \in {<<"0">>, <<"1">>}}
    \cup
    {[NoDisk EXCEPT
         !.VoteCounts = <<[wallet |-> WalletText(1), num_proposals |-> <<"x">>],
                          [wallet |-> WalletText(3), num_proposals |-> <<"2">>],
                          [wallet |-> WalletText(3), num_proposals |-> <<"1">>]>>,
         !.EligibleWalletsCached = <<ApiText(3), <<>>, WalletText(1)>>,
         !.ConcludedDecisionCount = <<" ", "2", " ">>]}

\* step 2 alone, with and without active proposals
HandFiles ==
    {MainFiles(ChainAliases),
     [MainFiles(<<>>) EXCEPT !.ActiveProposals = <<>>, !.AGIPActive = <<>>]}

\* step 2 is about to run on files that are already there
Step2Init ==
    /\ MainOff
    /\ GqlOff
    /\ call = NoCall
    /\ ret = NoRet
    /\ LoopOff
    /\ vpc = "step2"
    /\ files \in HandFiles
    /\ snapshot \in {s \in Snapshots : s[A1] = {} /\ s[G1] = {} /\ s[A2] = {}}
    /\ disk \in HandDisks
    /\ decision_groups = <<>>
    /\ alias_map = <<>>
    /\ slaves = {}
    /\ loop_idx = 0
    /\ wallet_counts = <<>>
    /\ eligible_wallets = {}
    /\ concluded_decisions = 0
    /\ total_decisions = 0

\* ------------------------------------------------- actions of the voting run
\* main of step 1 up to the counting loop
LoadStep1 ==
    /\ vpc = "step1"
    /\ LET included_proposals == load_proposals_from_csv(files.IncludedProposals)
           aliases            == load_alias_map(files.WalletAliases)
       IN  IF included_proposals = <<>>
           THEN /\ vpc' = "exit1"
                /\ UNCHANGED <<decision_groups, alias_map, slaves,
                               concluded_decisions>>
           ELSE /\ vpc' = "count1"
                /\ concluded_decisions' = Len(included_proposals)
                /\ decision_groups' =
                       build_decision_groups(included_proposals,
                                             load_av_to_gvs(files.GV2AV))
                /\ alias_map' = aliases.alias_map
                /\ slaves' = aliases.slaves
    /\ UNCHANGED <<files, snapshot, disk, loop_idx, wallet_counts,
                   eligible_wallets, total_decisions>>
    /\ UNCHANGED <<main_vars, call, ret, gql_vars, loop_vars>>

\* one pass of the loop of build_decision_counts
CountDecision ==
    /\ vpc = "count1"
    /\ loop_idx < Len(decision_groups)
    /\ wallet_counts' = CountGroup(wallet_counts,
                                   decision_groups[loop_idx + 1].proposals,
                                   alias_map)
    /\ loop_idx' = loop_idx + 1
    /\ UNCHANGED <<vpc, files, snapshot, disk, decision_groups, alias_map, slaves,
                   eligible_wallets, concluded_decisions, total_decisions>>
    /\ UNCHANGED <<main_vars, call, ret, gql_vars, loop_vars>>

\* after the loop: the eligible wallets
ComputeEligible ==
    /\ vpc = "count1"
    /\ loop_idx = Len(decision_groups)
    /\ eligible_wallets' = eligible_from(load_proposals_from_csv(files.AGIP6M))
    /\ vpc' = "write1"
    /\ UNCHANGED <<files, snapshot, disk, decision_groups, alias_map, slaves,
                   loop_idx, wallet_counts, concluded_decisions, total_decisions>>
    /\ UNCHANGED <<main_vars, call, ret, gql_vars, loop_vars>>

\* the three outputs of step 1
WriteStep1 ==
    /\ vpc = "write1"
    /\ disk' = [disk EXCEPT
                   !.VoteCounts = write_vote_counts_csv(wallet_counts, slaves),
                   !.EligibleWalletsCached =
                       write_eligible_wallets_csv(eligible_wallets),
                   !.ConcludedDecisionCount =
                       write_concluded_decision_count(concluded_decisions),
                   !.written = {"VoteCounts", "EligibleWalletsCached",
                                "ConcludedDecisionCount"}]
    /\ vpc' = "step2"
    /\ UNCHANGED <<files, snapshot, decision_groups, alias_map, slaves, loop_idx,
                   wallet_counts, eligible_wallets, concluded_decisions,
                   total_decisions>>
    /\ UNCHANGED <<main_vars, call, ret, gql_vars, loop_vars>>

\* main of step 2 up to the counting loop
LoadStep2 ==
    /\ vpc = "step2"
    /\ wallet_counts' = load_vote_counts(disk.VoteCounts)
    /\ eligible_wallets' = load_wallet_list_csv(disk.EligibleWalletsCached)
    /\ LET aliases == load_alias_map(files.WalletAliases)
       IN  /\ alias_map' = aliases.alias_map
           /\ slaves' = aliases.slaves
    /\ concluded_decisions' = read_int_file(disk.ConcludedDecisionCount)
    /\ total_decisions' =
           TotalDecisions(read_int_file(disk.ConcludedDecisionCount),
                          load_proposals_from_csv(files.ActiveProposals))
    /\ loop_idx' = 0
    /\ vpc' = "count2"
    /\ UNCHANGED <<files, snapshot, disk, decision_groups>>
    /\ UNCHANGED <<main_vars, call, ret, gql_vars, loop_vars>>

\* one pass of the loop of update_counts_with_active_proposals
CountActive ==
    /\ vpc = "count2"
    /\ loop_idx < Len(load_proposals_from_csv(files.ActiveProposals))
    /\ wallet_counts' =
           CountGroup(wallet_counts,
                      <<load_proposals_from_csv(files.ActiveProposals)[loop_idx + 1]>>,
                      alias_map)
    /\ loop_idx' = loop_idx + 1
    /\ UNCHANGED <<vpc, files, snapshot, disk, decision_groups, alias_map, slaves,
                   eligible_wallets, concluded_decisions, total_decisions>>
    /\ UNCHANGED <<main_vars, call, ret, gql_vars, loop_vars>>

\* after the loop: the eligible wallets, updated
UpdateEligible ==
    /\ vpc = "count2"
    /\ loop_idx = Len(load_proposals_from_csv(files.ActiveProposals))
    /\ eligible_wallets' =
           eligible_wallets
               \cup eligible_from(load_proposals_from_csv(files.AGIPActive))
    /\ vpc' = "write2"
    /\ UNCHANGED <<files, snapshot, disk, decision_groups, alias_map, slaves,
                   loop_idx, wallet_counts, concluded_decisions, total_decisions>>
    /\ UNCHANGED <<main_vars, call, ret, gql_vars, loop_vars>>

\* the output of step 2
WriteStep2 ==
    /\ vpc = "write2"
    /\ disk' = [disk EXCEPT
                   !.OutputWeights =
                       write_output_weights(eligible_wallets, wallet_counts,
                                            slaves, total_decisions),
                   !.written = @ \cup {"OutputWeights"}]
    /\ vpc' = "done2"
    /\ UNCHANGED <<files, snapshot, decision_groups, alias_map, slaves, loop_idx,
                   wallet_counts, eligible_wallets, concluded_decisions,
                   total_decisions>>
    /\ UNCHANGED <<main_vars, call, ret, gql_vars, loop_vars>>

\* ------------------------------------------------------------------- gql
RETRY_MAX == 5

\* time.sleep(1.0) before each attempt, in milliseconds
ATTEMPT_SLEEP_MS == 1000

RECURSIVE Pow(_, _)
Pow(b, e) == IF e = 0 THEN 1 ELSE b * Pow(b, e - 1)

\* time.sleep(RETRY_BACKOFF ** (attempt - 1)), RETRY_BACKOFF = 1.6, in ms
BackoffMs(n) == (1000 * Pow(16, n - 1)) \div Pow(10, n - 1)

\* what one POST can meet: the transport fails, the status is an error, the
\* body has a non-empty "errors", the body has no "data", the body has an
\* empty "errors" and data, the body has data
Responses ==
    {[kind |-> k, data |-> "none"] :
        k \in {"transport_error", "http_error", "graphql_errors", "no_data"}}
    \cup
    {[kind |-> k, data |-> d] :
        k \in {"empty_errors", "ok"}, d \in {"votes_a", "votes_b"}}

\* the exception the try block raises on a response, "none" when it returns
TryRaises(resp) ==
    CASE resp.kind = "transport_error" -> "ConnectionError"
      [] resp.kind = "http_error"      -> "HTTPError"
      [] resp.kind = "graphql_errors"  -> "RuntimeError"
      [] resp.kind = "no_data"         -> "KeyError"
      [] OTHER                         -> "none"

\* a backoff sleep after every failed attempt, the last one too
BackoffFollows_always(n) == TRUE

\* if attempt == RETRY_MAX: break, before the backoff sleep
BackoffFollows(n) == n # RETRY_MAX

SleepEvent(ms) == [ev |-> "sleep", ms |-> ms, kind |-> "none", data |-> "none"]

PostEvent(resp) == [ev |-> "post", ms |-> 0, kind |-> resp.kind, data |-> resp.data]

\* gql is called on its own
GqlInit ==
    /\ MainOff
    /\ call = NoCall
    /\ ret = NoRet
    /\ LoopOff
    /\ PipeOff
    /\ gpc = "sleep"
    /\ attempt = 1
    /\ last_exc = "none"
    /\ gql_ret = "none"
    /\ clock_log = <<>>

\* time.sleep(1.0) at the top of the loop
GqlSleep ==
    /\ gpc = "sleep"
    /\ clock_log' = Append(clock_log, SleepEvent(ATTEMPT_SLEEP_MS))
    /\ gpc' = "post"
    /\ UNCHANGED <<attempt, last_exc, gql_ret>>
    /\ UNCHANGED <<main_vars, call, ret, pipe_vars, loop_vars>>

\* the try block: the POST and the checks of its response; after the last
\* failed attempt the loop is left and RuntimeError raised
GqlPost ==
    /\ gpc = "post"
    /\ \E resp \in Responses :
          /\ clock_log' = Append(clock_log, PostEvent(resp))
          /\ IF TryRaises(resp) = "none"
             THEN /\ gql_ret' = resp.data
                  /\ gpc' = "returned"
                  /\ UNCHANGED last_exc
             ELSE /\ last_exc' = TryRaises(resp)
                  /\ gpc' = IF BackoffFollows(attempt) THEN "backoff" ELSE "raised"
                  /\ UNCHANGED gql_ret
    /\ UNCHANGED attempt
    /\ UNCHANGED <<main_vars, call, ret, pipe_vars, loop_vars>>

\* the backoff sleep of the except block, then the next pass of the loop
GqlBackoff ==
    /\ gpc = "backoff"
    /\ clock_log' = Append(clock_log, SleepEvent(BackoffMs(attempt)))
    /\ IF attempt < RETRY_MAX
       THEN attempt' = attempt + 1 /\ gpc' = "sleep"
       ELSE attempt' = attempt /\ gpc' = "raised"
    /\ UNCHANGED <<last_exc, gql_ret>>
    /\ UNCHANGED <<main_vars, call, ret, pipe_vars, loop_vars>>

\* main runs, or one function is called on its own, or the voting scripts run
\* ------------------------------------------------ build_layers loop by loop
\* a caller is about to call build_layers
LoopInit ==
    /\ MainOff
    /\ VoteOff
    /\ call = NoCall
    /\ ret = NoRet
    /\ bpc = "call"
    /\ bl_leaves = <<>>
    /\ bl_layers = <<>>

\* build_layers is entered with any list of up to MaxLeaves leaves
BuildCall ==
    /\ bpc = "call"
    /\ bl_leaves' \in LeafLists
    /\ bpc' = "enter"
    /\ UNCHANGED <<bl_layers, main_vars, call, ret, vote_vars>>

\* if not leaves: raise ValueError; layers = [leaves]
BuildEnter ==
    /\ bpc = "enter"
    /\ IF bl_leaves = <<>>
       THEN /\ bpc' = "raised"
            /\ UNCHANGED bl_layers
       ELSE /\ bl_layers' = <<bl_leaves>>
            /\ bpc' = "while"
    /\ UNCHANGED <<bl_leaves, main_vars, call, ret, vote_vars>>

\* one iteration of while len(layers[-1]) > 1: the inner loop builds nxt,
\* layers.append(nxt)
BuildIterate ==
    /\ bpc = "while"
    /\ Len(Last(bl_layers)) > 1
    /\ bl_layers' = Append(bl_layers, NextLayer(Last(bl_layers)))
    /\ UNCHANGED <<bpc, bl_leaves, main_vars, call, ret, vote_vars>>

\* the while condition is false: return layers
BuildReturn ==
    /\ bpc = "while"
    /\ ~(Len(Last(bl_layers)) > 1)
    /\ bpc' = "returned"
    /\ UNCHANGED <<bl_leaves, bl_layers, main_vars, call, ret, vote_vars>>

Init == RunInit \/ TreeInit \/ VoteInit \/ Step2Init \/ GqlInit \/ LoopInit

Next ==
    \/ ReadInput
    \/ ProcessRow
    \/ RowsDone
    \/ BuildTree
    \/ BuildClaim
    \/ WriteDocument
    \/ CallBuildLayers
    \/ CallGetProof
    \/ CallHashPair
    \/ CallParseAmount
    \/ LoadStep1
    \/ CountDecision
    \/ ComputeEligible
    \/ WriteStep1
    \/ LoadStep2
    \/ CountActive
    \/ UpdateEligible
    \/ WriteStep2
    \/ GqlSleep
    \/ GqlPost
    \/ GqlBackoff
    \/ BuildCall
    \/ BuildEnter
    \/ BuildIterate
    \/ BuildReturn

Spec == Init /\ [][Next]_vars

\* a call of build_layers on its own: the interpreter runs the loop on, so
\* a step that can be taken is taken
BuildNext == BuildCall \/ BuildEnter \/ BuildIterate \/ BuildReturn

BuildSpec == LoopInit /\ [][BuildNext]_vars /\ WF_vars(BuildNext)

\* ------------------------------------------------------------ verification
\* the verifier's fold: the leaf, then each proof element through hash_pair
RECURSIVE FoldProof(_, _)
FoldProof(node, proof) ==
    IF proof = <<>> THEN node
    ELSE FoldProof(hash_pair(node, FromHex0x(proof[1])), Tail(proof))

Written == output_json.written

\* the leaf a verifier computes for an entry of the claims map
EntryLeaf(account) ==
    hash_leaf(0, account, IntOfDigits(output_json.claims[account].amountWei))

\* C1: every entry of the written claims map verifies: folding its proof into
\* its leaf hash with hash_pair gives the published merkleRoot.
ProofValidity ==
    Written =>
        \A account \in DOMAIN output_json.claims :
            FoldProof(EntryLeaf(account), output_json.claims[account].proof)
                = FromHex0x(output_json.merkleRoot)

\* a document over five leaves: layers 0 and 1 both have odd length
ProofValidityWitness ==
    /\ Written
    /\ Len(layers) = 4
    /\ Len(layers[1]) = 5
    /\ Len(layers[2]) = 3
    /\ Cardinality(DOMAIN output_json.claims) >= 2


\* ----------------------------------------------------- the rows, read back
\* what a reader of the input table takes a row to say
RowAccount(r) == to_checksum_address(strip(r.wallet))

RowAmount(r) == parse_amount_to_wei(r.rewardTotal, argv_unit).wei

\* the digits say zero
SaysZero(ds) == \A i \in 1..Len(ds) : ds[i] = 0

ZeroRowPositions == { i \in 1..Len(rows) : SaysZero(RowAmount(rows[i])) }

NonZeroRowPositions == (1..Len(rows)) \ ZeroRowPositions

\* the k-th smallest position of the set nz
KthOf(nz, k) ==
    CHOOSE p \in nz : Cardinality({ q \in nz : q < p }) = k - 1

\* C2: when two rows resolve to the same canonical account the run fails
\* (DuplicateAccount) and no document is written.
DuplicateDetection ==
    (\E i \in 1..Len(rows) : \E j \in 1..Len(rows) :
        /\ i < j
        /\ IsAddress(strip(rows[i].wallet))
        /\ IsAddress(strip(rows[j].wallet))
        /\ RowAccount(rows[i]) = RowAccount(rows[j]))
    => ~Written

\* C3: in a written document no row with a zero amount is a leaf or a claims
\* entry, each such row is counted in skippedZeroAmountWallets, and one zero
\* row with two non-zero rows of distinct accounts gives 2 entries, 1 skipped.
ZeroAmountExclusion ==
    Written =>
        /\ output_json.stats.skippedZeroAmountWallets = Cardinality(ZeroRowPositions)
        /\ Len(layers[1]) = Cardinality(NonZeroRowPositions)
        /\ \A i \in ZeroRowPositions :
              /\ \A k \in 1..Len(values) : values[k].meta # rows[i]
              /\ \A a \in DOMAIN output_json.claims :
                    output_json.claims[a].csv # rows[i]
        /\ \A a \in DOMAIN output_json.claims :
              ~SaysZero(IntOfDigits(output_json.claims[a].amountWei))
        /\ ( /\ Len(rows) = 3
             /\ Cardinality(ZeroRowPositions) = 1
             /\ Cardinality({ RowAccount(rows[i]) : i \in NonZeroRowPositions }) = 2 )
           => /\ Cardinality(DOMAIN output_json.claims) = 2
              /\ output_json.stats.skippedZeroAmountWallets = 1

\* the example of C3: a zero row between two non-zero rows of two accounts
ZeroAmountExclusionWitness ==
    /\ Written
    /\ Len(rows) = 3
    /\ Cardinality(ZeroRowPositions) = 1
    /\ Cardinality({ RowAccount(rows[i]) : i \in NonZeroRowPositions }) = 2

\* C4: once the tree is built, the k-th row with a non-zero amount is the
\* included claim of index k-1, the indices are 0..n-1, and layer 0 holds
\* the leaves of these claims in that order.
IndexAssignment ==
    pc \in {"claims", "done"} =>
        LET nz == NonZeroRowPositions
        IN
        /\ Len(values) = Cardinality(nz)
        /\ Len(layers[1]) = Len(values)
        /\ { values[k].index : k \in 1..Len(values) } = 0..(Len(values) - 1)
        /\ \A k \in 1..Len(values) :
              LET r == rows[KthOf(nz, k)]
              IN  /\ values[k].index = k - 1
                  /\ values[k].meta = r
                  /\ layers[1][k] = hash_leaf(0, RowAccount(r), RowAmount(r))
        /\ \A a \in DOMAIN claims :
              \E k \in 1..Len(values) :
                 /\ values[k].account = a
                 /\ IntOfDigits(claims[a].index) = DigitsOfNat(k - 1)

\* a table whose zero rows come before, between and after included rows
IndexAssignmentWitness ==
    /\ pc = "done"
    /\ Len(values) >= 3
    /\ \E i \in ZeroRowPositions : \E k \in NonZeroRowPositions : i < k
    /\ \E i \in ZeroRowPositions : \E k \in NonZeroRowPositions : i > k

\* ------------------------------------------- the tree functions, read back
Built == call.fn = "build_layers" /\ ret.raised = "none" /\ ret # Pending

\* C5: the layers of a non-empty leaf list start with that list, each next
\* layer has ceil(len / 2) nodes, and the last layer has one node.
LayerShape ==
    (call.fn = "build_layers" /\ ret # Pending /\ call.leaves # <<>>) =>
        /\ ret.raised = "none"
        /\ ret.layers[1] = call.leaves
        /\ Len(Last(ret.layers)) = 1
        /\ \A k \in 1..(Len(ret.layers) - 1) :
              Len(ret.layers[k + 1]) * 2 \in
                  { Len(ret.layers[k]), Len(ret.layers[k]) + 1 }

LayerShapeWitness ==
    /\ Built
    /\ Len(call.leaves) = 5
    /\ Len(ret.layers) = 4

\* C6: a layer of odd length (more than one node) gets its last node hashed
\* with itself as the last node of the next layer; leaves [L0,L1,L2] give
\* layer 1 = [hash_pair(L0,L1), hash_pair(L2,L2)] and a one-node layer 2.
OddDuplication ==
    Built =>
        /\ \A k \in 1..(Len(ret.layers) - 1) :
              LET cur == ret.layers[k]
              IN  (Len(cur) % 2 = 1) =>
                     /\ Len(ret.layers[k + 1]) = (Len(cur) + 1) \div 2
                     /\ Last(ret.layers[k + 1]) = hash_pair(Last(cur), Last(cur))
        /\ Len(call.leaves) = 3 =>
              /\ Len(ret.layers) = 3
              /\ ret.layers[2] =
                    << hash_pair(call.leaves[1], call.leaves[2]),
                       hash_pair(call.leaves[3], call.leaves[3]) >>
              /\ Len(ret.layers[3]) = 1

\* five leaves: layer 0 (5 nodes) and layer 1 (3 nodes) are both odd, and the
\* duplicated node is not a fixed point of the hash
OddDuplicationWitness ==
    /\ Built
    /\ Len(call.leaves) = 5
    /\ Len(ret.layers[2]) = 3
    /\ hash_pair(Last(call.leaves), Last(call.leaves)) # Last(call.leaves)
    /\ hash_pair(Last(ret.layers[2]), Last(ret.layers[2])) # Last(ret.layers[2])

\* a bytes32 value as a big-endian unsigned number
RECURSIVE BigEndian(_)
BigEndian(x) ==
    IF x = <<>> THEN 0
    ELSE BigEndian(SubSeq(x, 1, Len(x) - 1)) * ByteMod + Last(x)

\* C7: hash_pair(a,b) is the hash of the smaller value followed by the
\* larger, so the order of the arguments does not matter.
SortedPair ==
    (call.fn = "hash_pair" /\ ret # Pending) =>
        LET lo == IF BigEndian(call.a) <= BigEndian(call.b) THEN call.a ELSE call.b
            hi == IF BigEndian(call.a) <= BigEndian(call.b) THEN call.b ELSE call.a
        IN  /\ ret.hash = keccak(lo \o hi)
            /\ ret.hash = hash_pair(call.b, call.a)

\* a call with the larger value first, where the order changes the hash
SortedPairWitness ==
    /\ call.fn = "hash_pair"
    /\ ret # Pending
    /\ BigEndian(call.a) > BigEndian(call.b)
    /\ keccak(call.a \o call.b) # keccak(call.b \o call.a)

\* C8: for layers that build_layers returned and an index in range,
\* get_proof returns len(layers) - 1 hashes; so does every proof of a
\* written document.
ProofLength ==
    /\ (call.fn = "get_proof" /\ call.leaf_index < Len(call.layers[1])) =>
          /\ ret.raised = "none"
          /\ Len(ret.proof) = Len(call.layers) - 1
    /\ Written =>
          \A a \in DOMAIN output_json.claims :
              Len(output_json.claims[a].proof) = Len(layers) - 1

ProofLengthWitness ==
    /\ call.fn = "get_proof"
    /\ Len(call.layers) = 4
    /\ call.leaf_index = 4
    /\ Len(ret.proof) = 3

\* C9: get_proof with leaf_index >= len(layers[0]) fails and returns no proof.
OutOfRangeRejected ==
    (call.fn = "get_proof" /\ call.leaf_index >= Len(call.layers[1])) =>
        ret.raised # "none"

\* C10: build_layers on an empty list raises instead of returning layers, and
\* a run in which every row has a zero amount ends with an error before any
\* leaf or layer is built and without a document.
NoSurvivor ==
    /\ pc \notin {"off", "start"}
    /\ Len(rows) > 0
    /\ row_idx = Len(rows)
    /\ NonZeroRowPositions = {}

EmptyInput ==
    /\ (call.fn = "build_layers" /\ call.leaves = <<>> /\ ret # Pending) =>
          (ret.raised = "ValueError" /\ ret.layers = <<>>)
    /\ NoSurvivor =>
          /\ pc \in {"rows", "exit"}
          /\ leaves = <<>>
          /\ layers = <<>>
          /\ ~Written
    /\ (NoSurvivor /\ pc = "exit") =>
          exit_msg = "All rows were skipped"

EmptyInputWitness ==
    /\ call.fn = "build_layers"
    /\ call.leaves = <<>>
    /\ ret.raised = "ValueError"

\* C11: with exactly one included claim the tree has the single layer [leaf],
\* the root is that claim's hash_leaf, not hashed again, and the claim's proof
\* is empty; build_layers and get_proof on one leaf say the same.
SingleClaim ==
    /\ (pc \in {"claims", "done"} /\ Len(values) = 1) =>
          LET leaf == hash_leaf(values[1].index, values[1].account,
                                values[1].amount_wei)
          IN  /\ layers = << <<leaf>> >>
              /\ root_hex = Hex0x(leaf)
              /\ \A a \in DOMAIN claims : claims[a].proof = <<>>
    /\ (Written /\ output_json.stats.includedWallets = 1) =>
          /\ DOMAIN output_json.claims = {values[1].account}
          /\ \A a \in DOMAIN output_json.claims :
                /\ output_json.claims[a].proof = <<>>
                /\ FromHex0x(output_json.merkleRoot) = EntryLeaf(a)
    /\ (call.fn = "build_layers" /\ ret # Pending /\ Len(call.leaves) = 1) =>
          ret.layers = <<call.leaves>>
    /\ (call.fn = "get_proof" /\ Len(call.layers) = 1 /\ call.leaf_index = 0) =>
          (ret.raised = "none" /\ ret.proof = <<>>)

\* a document of one claim from a table that also has zero-amount rows, whose
\* leaf is not a fixed point of the pair hash
SingleClaimWitness ==
    /\ Written
    /\ Len(values) = 1
    /\ Len(rows) >= 3
    /\ hash_pair(leaves[1], leaves[1]) # leaves[1]

\* ------------------------------------------- the document, from the input
\* the rows of the input file with a non-zero amount, in the file's order
NonZeroRow(r) == ~SaysZero(RowAmount(r))

InputIncluded == SelectSeq(input_csv.rows, NonZeroRow)

\* the leaves, layers and root that the ordered input and the unit determine
InputLeaves ==
    LET inc == InputIncluded
    IN  SubSeq([k \in 1..Len(inc) |->
                   hash_leaf(0, RowAccount(inc[k]), RowAmount(inc[k]))],
               1, Len(inc))

InputLayers == build_layers(InputLeaves).layers

\* the last position of account a among the included rows
LastPositionOf(a) ==
    CHOOSE k \in 1..Len(InputIncluded) :
        /\ RowAccount(InputIncluded[k]) = a
        /\ \A j \in (k + 1)..Len(InputIncluded) : RowAccount(InputIncluded[j]) # a

\* C12: the written root, the index and the proof of every account are
\* functions of the ordered rows of the input and the unit alone, so two runs
\* on the same input give the same root, indices and proofs.
Determinism ==
    Written =>
        LET lay == InputLayers
        IN  /\ output_json.merkleRoot = Hex0x(Last(lay)[1])
            /\ DOMAIN output_json.claims =
                  { RowAccount(InputIncluded[k]) : k \in 1..Len(InputIncluded) }
            /\ \A a \in DOMAIN output_json.claims :
                  LET k == LastPositionOf(a)
                  IN  /\ output_json.claims[a].index = StrOfInt(DigitsOfNat(k - 1))
                      /\ output_json.claims[a].proof = get_proof(lay, k - 1).proof
                      /\ output_json.claims[a].amountWei =
                            StrOfInt(RowAmount(InputIncluded[k]))

\* a document from a table with a skipped row and one account in two rows
DeterminismWitness ==
    /\ Written
    /\ Len(InputIncluded) >= 3
    /\ Len(InputIncluded) < Len(input_csv.rows)
    /\ Cardinality(DOMAIN output_json.claims) < Len(InputIncluded)

\* ------------------------------------------------ the parser, read back
Parsed(unit) == call.fn = "parse_amount_to_wei" /\ call.unit = unit /\ ret # Pending

\* the text without an optional leading "+"
Unsigned(v) == IF v # <<>> /\ v[1] = "+" THEN Tail(v) ELSE v

\* digits before and after the point of an unsigned text
PlainInt(u) ==
    IF FirstIndex(u, {"."}) = 0 THEN u ELSE SubSeq(u, 1, FirstIndex(u, {"."}) - 1)

PlainFrac(u) ==
    IF FirstIndex(u, {"."}) = 0 THEN <<>>
    ELSE SubSeq(u, FirstIndex(u, {"."}) + 1, Len(u))

\* a non-negative decimal in plain notation: [+] digits [. digits]
IsPlainDecimal(v) ==
    /\ PlainInt(Unsigned(v)) \o PlainFrac(Unsigned(v)) # <<>>
    /\ \A i \in 1..Len(PlainInt(Unsigned(v))) : IsDigitChar(PlainInt(Unsigned(v))[i])
    /\ \A i \in 1..Len(PlainFrac(Unsigned(v))) : IsDigitChar(PlainFrac(Unsigned(v))[i])

\* value * 10^18 of a plain decimal with at most 18 fractional digits
ExactWei(v) ==
    StripZeros([i \in 1..(Len(PlainInt(Unsigned(v))) + WEI_DECIMALS) |->
        IF i <= Len(PlainInt(Unsigned(v))) THEN DigitVal(PlainInt(Unsigned(v))[i])
        ELSE IF i - Len(PlainInt(Unsigned(v))) <= Len(PlainFrac(Unsigned(v)))
        THEN DigitVal(PlainFrac(Unsigned(v))[i - Len(PlainInt(Unsigned(v)))])
        ELSE 0])

\* a text with a character that no number has
Malformed(v) ==
    \/ v = <<>>
    \/ \E i \in 1..Len(v) :
          ~IsDigitChar(v[i]) /\ v[i] \notin {"+", "-", ".", "e", "E", "_"} \cup Whitespace

\* C13: with unit eth the parser returns exactly value * 10^18 for every
\* non-negative decimal of at most 18 fractional digits, and fails for a
\* negative value, for more than 18 fractional digits and for a text that is
\* not a decimal.
ExactEthConversion ==
    Parsed("eth") =>
        /\ (IsPlainDecimal(call.value) /\ Len(PlainFrac(Unsigned(call.value))) <= WEI_DECIMALS)
              => (ret.raised = "none" /\ ret.wei = ExactWei(call.value))
        /\ (IsPlainDecimal(call.value) /\ Len(PlainFrac(Unsigned(call.value))) > WEI_DECIMALS)
              => ret.raised # "none"
        /\ (call.value # <<>> /\ call.value[1] = "-" /\ IsPlainDecimal(Tail(call.value))
               /\ ~SaysZero(ExactWei(Tail(call.value))))
              => ret.raised # "none"
        /\ Malformed(call.value) => ret.raised # "none"

\* a non-negative integer literal: an optional "+", then one or more digits
IsIntLiteral(v) == isdigit(Unsigned(v))

\* C14: with unit wei the parser returns the integer of a non-negative integer
\* literal with an optional single leading "+", and fails with ValueError for
\* any other content, blanks around or inside the digits included.
MinorUnitParsing ==
    Parsed("wei") =>
        IF IsIntLiteral(call.value)
        THEN ret.raised = "none" /\ ret.wei = IntOfDigits(Unsigned(call.value))
        ELSE ret.raised = "ValueError"

\* an included claim whose amount is beyond 2^256 - 1
OutOfRangeAmount ==
    \E k \in 1..Len(values) : ~IntLeq(values[k].amount_wei, UINT256_MAX)

\* C16: the wei parser accepts 2^256, and a run that includes an amount above
\* 2^256 - 1 fails in the leaf encoder: no leaf, no layer, no root and no
\* document are ever produced.
AmountRange ==
    /\ (Parsed("wei") /\ call.value = StrOfInt(Inc(UINT256_MAX))) =>
          (ret.raised = "none" /\ ret.wei = Inc(UINT256_MAX))
    /\ OutOfRangeAmount =>
          /\ pc \in {"rows", "tree", "exit"}
          /\ leaves = <<>>
          /\ layers = <<>>
          /\ root_hex = <<>>
          /\ claims = <<>>
          /\ ~Written
          /\ (pc = "exit" /\ row_idx = Len(rows)) =>
                exit_msg = "Traceback: ValueOutOfBounds"

\* a run over two included claims, the second out of range, ended by the encoder
AmountRangeWitness ==
    /\ OutOfRangeAmount
    /\ argv_unit = "wei"
    /\ Len(values) = 2
    /\ IntLeq(values[1].amount_wei, UINT256_MAX)
    /\ exit_msg = "Traceback: ValueOutOfBounds"

\* C15: the output file is written only by a run that ends without an error,
\* after every row was accepted and every leaf, the root and every proof
\* were computed; a run that fails, at a row or later, leaves the file as it
\* was.
NoPartialSuccess ==
    /\ pc # "done" => output_json = NoFile
    /\ exit_msg # "none" => (pc = "exit" /\ output_json = NoFile)
    /\ (\E i \in 1..Len(input_csv.rows) : ~RowAccepted(input_csv.rows[i], argv_unit))
          => output_json = NoFile
    /\ Written =>
          /\ row_idx = Len(rows)
          /\ rows = input_csv.rows
          /\ Len(leaves) = Len(values)
          /\ layers = build_layers(leaves).layers
          /\ root_hex = Hex0x(Last(layers)[1])
          /\ claim_pos = Len(values)
          /\ \A k \in 1..Len(values) :
                /\ leaves[k] = hash_leaf(values[k].index, values[k].account,
                                         values[k].amount_wei)
                /\ values[k].account \in DOMAIN output_json.claims
          /\ \A a \in DOMAIN output_json.claims :
                \E k \in 1..Len(values) :
                    output_json.claims[a].proof = get_proof(layers, k - 1).proof

\* a run that accepted two claims and then met a row with a bad amount
NoPartialSuccessWitness ==
    /\ pc = "exit"
    /\ exit_msg = "bad rewardTotal"
    /\ Len(values) >= 2
    /\ row_idx = Len(values)
    /\ output_json = NoFile

\* ------------------------------------------------------------ voting claims
\* the wallets of the voting run
VoteWallets == {WalletText(k) : k \in 1..NumWallets}

\* wallet w cast a vote on proposal p, whatever the case the API spells it in
VotedOnProposal(w, p) ==
    \E voter \in DictGet(snapshot, p, {}) : LowerText(strip(voter)) = w

\* wallet w cast a vote on at least one proposal of the list
VotedOnAny(w, proposals) ==
    \E i \in 1..Len(proposals) : VotedOnProposal(w, proposals[i])

\* the identity a wallet maps to
IdentityOf(w) == IF w \in DOMAIN alias_map THEN alias_map[w] ELSE w

\* the proposals the counting loop is about to go through
ProposalsInTurn ==
    IF vpc = "count1" THEN decision_groups[loop_idx + 1].proposals
    ELSE <<load_proposals_from_csv(files.ActiveProposals)[loop_idx + 1]>>

CountBefore(x) == IF x \in DOMAIN wallet_counts THEN wallet_counts[x] ELSE 0

CountAfter(x) == IF x \in DOMAIN wallet_counts' THEN wallet_counts'[x] ELSE 0

\* C17: one pass of the counting loop (a decision group in step 1, an active
\* proposal in step 2) raises an identity's count by exactly 1 when at least
\* one wallet mapping to that identity voted on any proposal of the pass, and
\* by 0 otherwise, however many of its wallets voted and on however many of
\* the proposals
OnePerDecision ==
    [][(vpc \in {"count1", "count2"} /\ loop_idx' = loop_idx + 1) =>
          \A x \in VoteWallets \cup DOMAIN wallet_counts \cup DOMAIN wallet_counts' :
              CountAfter(x) = CountBefore(x)
                  + (IF \E w \in VoteWallets :
                            IdentityOf(w) = x /\ VotedOnAny(w, ProposalsInTurn)
                     THEN 1 ELSE 0)]_vars

\* the first decision is counted: a master and its slave both voted on the
\* main-dao proposal, one of them on the mirror too, and the master has 1
OnePerDecisionWitness ==
    /\ vpc = "count1"
    /\ loop_idx = 1
    /\ Len(decision_groups[1].proposals) = 2
    /\ \E m, s \in VoteWallets :
          /\ s # m
          /\ IdentityOf(s) = m
          /\ IdentityOf(m) = m
          /\ VotedOnProposal(m, decision_groups[1].proposals[1])
          /\ VotedOnProposal(s, decision_groups[1].proposals[1])
          /\ VotedOnProposal(s, decision_groups[1].proposals[2])
          /\ wallet_counts[m] = 1

\* the rows of WalletAliases.csv that list wallets: the cells that are not
\* blank, as addresses, of a row that starts with an address and has an old
\* wallet after the master
ListedRows ==
    LET cellsOf(row) == [i \in 1..Len(RawCells(row)) |->
                            LowerText(RawCells(row)[i])]
    IN  {cellsOf(files.WalletAliases[i]) : i \in
            {j \in 1..Len(files.WalletAliases) :
                /\ Len(RawCells(files.WalletAliases[j])) >= 2
                /\ StartsWith0x(RawCells(files.WalletAliases[j])[1])}}

ListedMasters == {r[1] : r \in ListedRows}

\* the slave wallets the file lists for master m
SlavesOf(m) ==
    UNION {{r[i] : i \in 2..Len(r)} : r \in {x \in ListedRows : x[1] = m}} \ {m}

\* the decisions step 1 counts
CountedDecisions == 1..Len(decision_groups)

\* the decisions on which the wallet itself voted (main-dao proposal or mirror)
DecisionsVotedBy(w) ==
    {g \in CountedDecisions : VotedOnAny(w, decision_groups[g].proposals)}

\* num_proposals of the wallet's row in VoteCounts.csv, 0 without a row
WrittenCount(w) ==
    IF \E i \in 1..Len(disk.VoteCounts) : disk.VoteCounts[i].wallet = w
    THEN SmallInt(disk.VoteCounts[CHOOSE i \in 1..Len(disk.VoteCounts) :
                                      disk.VoteCounts[i].wallet = w].num_proposals)
    ELSE 0

\* C18: once VoteCounts.csv is written, the count of every master listed in
\* WalletAliases.csv is the number of counted decisions on which the master or
\* one of the slaves listed for it voted
SlaveVotesCredited ==
    "VoteCounts" \in disk.written =>
        \A m \in ListedMasters :
            WrittenCount(m) =
                Cardinality(UNION {DecisionsVotedBy(w) : w \in {m} \cup SlavesOf(m)})

\* the wallets WalletAliases.csv lists as a slave of some master
ListedSlaves == UNION {SlavesOf(m) : m \in ListedMasters}

\* the file has a data row of the wallet, and every such row is the given one
OnlyRow(file, row) ==
    /\ \E i \in 1..Len(file) : file[i] = row
    /\ \A i \in 1..Len(file) : file[i].wallet = row.wallet => file[i] = row

\* C19: every wallet listed as a slave in WalletAliases.csv has its row in
\* VoteCounts.csv with num_proposals 0, whatever its count as an identity;
\* every eligible slave has its row in OutputWeights.csv with num_proposals 0
\* and weight 0.000000
SlavesCarryNoCount ==
    /\ "VoteCounts" \in disk.written =>
          \A s \in ListedSlaves :
              OnlyRow(disk.VoteCounts, [wallet |-> s, num_proposals |-> <<"0">>])
    /\ "OutputWeights" \in disk.written =>
          \A s \in ListedSlaves \cap eligible_wallets :
              OnlyRow(disk.OutputWeights,
                      [wallet |-> s, num_proposals |-> <<"0">>,
                       weight |-> <<"0", ".", "0", "0", "0", "0", "0", "0">>])

\* both files are written; a slave that is eligible has a count of its own as
\* an identity, and its master has a weight above zero
SlavesCarryNoCountWitness ==
    /\ vpc = "done2"
    /\ \E s \in ListedSlaves \cap eligible_wallets :
          /\ s \in DOMAIN wallet_counts
          /\ wallet_counts[s] > 0
          /\ \E i \in 1..Len(disk.OutputWeights) :
                /\ disk.OutputWeights[i].wallet = s
                /\ disk.OutputWeights[i].num_proposals = <<"0">>
    /\ \E i \in 1..Len(disk.OutputWeights) :
          /\ disk.OutputWeights[i].wallet \in ListedMasters \ ListedSlaves
          /\ disk.OutputWeights[i].num_proposals # <<"0">>

\* wallet w cast a vote on a proposal of the file (its ids, blank ones aside)
VotedOnFile(w, ids) ==
    \E i \in 1..Len(ids) : strip(ids[i]) # <<>> /\ VotedOnProposal(w, strip(ids[i]))

\* the wallets of the data rows of a file
WalletsOf(file) == {file[i].wallet : i \in 1..Len(file)}

\* the wallets of EligibleWalletsCached.csv
CachedEligible ==
    {LowerText(strip(disk.EligibleWalletsCached[i])) :
        i \in 1..Len(disk.EligibleWalletsCached)} \ {<<>>}

\* C20: step 1 writes a wallet to EligibleWalletsCached.csv iff that address
\* voted on a proposal of AGIP6M.csv; step 2 keeps a wallet as eligible, and
\* writes it to OutputWeights.csv, iff it is in the cached list or that
\* address voted on a proposal of AGIPActive.csv; aliases and mirrors play
\* no part
RawEligibility ==
    /\ "EligibleWalletsCached" \in disk.written =>
          \A w \in VoteWallets \cup CachedEligible :
              w \in CachedEligible <=> VotedOnFile(w, files.AGIP6M)
    /\ vpc = "write1" =>
          \A w \in VoteWallets \cup eligible_wallets :
              w \in eligible_wallets <=> VotedOnFile(w, files.AGIP6M)
    /\ vpc \in {"write2", "done2"} =>
          \A w \in VoteWallets \cup eligible_wallets :
              w \in eligible_wallets <=>
                  (w \in CachedEligible \/ VotedOnFile(w, files.AGIPActive))
    /\ "OutputWeights" \in disk.written =>
          WalletsOf(disk.OutputWeights) = eligible_wallets

\* step 2 is done: a slave is eligible by its own vote and its master is not,
\* and a wallet that voted on the mirror of an AGIP6M proposal only is not
RawEligibilityWitness ==
    /\ vpc = "done2"
    /\ \E m, s \in VoteWallets :
          /\ s # m
          /\ IdentityOf(s) = m
          /\ s \in WalletsOf(disk.OutputWeights)
          /\ m \notin WalletsOf(disk.OutputWeights)
    /\ \E m, s \in VoteWallets :
          /\ s # m
          /\ IdentityOf(s) = m
          /\ m \in CachedEligible
          /\ s \notin WalletsOf(disk.OutputWeights)
    /\ \E w \in VoteWallets, g \in CountedDecisions :
          /\ Len(decision_groups[g].proposals) = 2
          /\ VotedOnFile(w, <<decision_groups[g].proposals[2]>>)
          /\ decision_groups[g].proposals[1] = strip(files.AGIP6M[1])
          /\ w \notin WalletsOf(disk.OutputWeights)

\* the integer of ConcludedDecisionCount.txt
WrittenConcluded == SmallInt(strip(disk.ConcludedDecisionCount))

\* C21: once step 1 has written its files, the integer of
\* ConcludedDecisionCount.txt is the number of decision groups the counting
\* loop of build_decision_counts went through, one per av_id
ConcludedCount ==
    "ConcludedDecisionCount" \in disk.written =>
        /\ WrittenConcluded = Len(decision_groups)
        /\ WrittenConcluded =
              Cardinality({strip(files.IncludedProposals[i]) :
                              i \in 1..Len(files.IncludedProposals)} \ {<<>>})

\* the number of proposals of a file: its rows with an id
ProposalsIn(ids) == Cardinality({i \in 1..Len(ids) : strip(ids[i]) # <<>>})

\* a weight of OutputWeights.csv in millionths: its digits without the point
MicroOf(weight) == SmallInt(SelectSeq(weight, IsDigitChar))

\* the weight text is n / total to six decimals, 0.000000 for a total of 0
IsWeightOf(weight, n, total) ==
    /\ Len(weight) >= 8
    /\ weight[Len(weight) - 6] = "."
    /\ IF total = 0 THEN MicroOf(weight) = 0
       ELSE /\ 2 * (MicroOf(weight) * total - n * 1000000) <= total
            /\ 2 * (n * 1000000 - MicroOf(weight) * total) <= total

\* C22: every row of OutputWeights.csv has weight = num_proposals / (the
\* integer of ConcludedDecisionCount.txt + the number of active proposals),
\* 0.0 when that total is 0; when step 1 wrote VoteCounts.csv and
\* ConcludedDecisionCount.txt, no count exceeds the total and every weight
\* is between 0 and 1
WeightRange ==
    "OutputWeights" \in disk.written =>
        LET total == WrittenConcluded + ProposalsIn(files.ActiveProposals)
        IN  \A i \in 1..Len(disk.OutputWeights) :
                LET row == disk.OutputWeights[i]
                IN  /\ IsWeightOf(row.weight, SmallInt(row.num_proposals), total)
                    /\ {"VoteCounts", "ConcludedDecisionCount"} \subseteq disk.written
                          => /\ SmallInt(row.num_proposals) <= total
                             /\ MicroOf(row.weight) <= 1000000

\* step 2 ran on the files of step 1: one wallet voted on every decision and
\* has weight 1, another has a weight strictly between 0 and 1
WeightRangeWitness ==
    /\ vpc = "done2"
    /\ {"VoteCounts", "ConcludedDecisionCount"} \subseteq disk.written
    /\ ProposalsIn(files.ActiveProposals) >= 1
    /\ \E i, j \in 1..Len(disk.OutputWeights) :
          /\ disk.OutputWeights[i].weight = <<"1", ".", "0", "0", "0", "0", "0", "0">>
          /\ MicroOf(disk.OutputWeights[j].weight) > 0
          /\ MicroOf(disk.OutputWeights[j].weight) < 1000000
          /\ SmallInt(disk.OutputWeights[j].num_proposals) > 0

\* ------------------------------------------------------------- gql claims
\* the positions of the POST attempts in what the call did
PostPositions == {p \in 1..Len(clock_log) : clock_log[p].ev = "post"}

\* the attempt got a response to return: no error of the transport, of the
\* status or of GraphQL, and data in the body
Succeeded(e) == e.ev = "post" /\ e.data # "none"

\* the failures the protocol names
NamedFailures == {"http_error", "transport_error", "graphql_errors"}

FlipLowBit(j) == j + 1 - 2 * (j % 2)

\* the node get_proof is at in layer k for leaf i
NodeAt(i, k) == i \div (2 ^ k)

\* C24: for layers that build_layers returned and a leaf index i in range,
\* element k of get_proof(layers, i) is layers[k][j XOR 1] when j XOR 1 is
\* within layers[k] and layers[k][j] otherwise, j = floor(i / 2^k); the
\* node's own hash is taken exactly when j is the last entry of a layer of
\* odd length.
SiblingPath ==
    (call.fn = "get_proof" /\ call.leaf_index < Len(call.layers[1])) =>
        /\ ret.raised = "none"
        /\ DOMAIN ret.proof = 1..(Len(call.layers) - 1)
        /\ \A k \in 0..(Len(call.layers) - 2) :
              LET layer == call.layers[k + 1]
                  j     == NodeAt(call.leaf_index, k)
                  s     == FlipLowBit(j)
              IN  /\ j < Len(layer)
                  /\ ret.proof[k + 1] =
                        Hex0x(IF s < Len(layer) THEN layer[s + 1] ELSE layer[j + 1])
                  /\ (s >= Len(layer)) <=>
                        (j = Len(layer) - 1 /\ Len(layer) % 2 = 1)

\* the proof of the last of five leaves: its own hash at the two odd layers,
\* the left neighbour at the layer of two
SiblingPathWitness ==
    /\ call.fn = "get_proof"
    /\ Len(call.layers[1]) = 5
    /\ call.leaf_index = 4
    /\ ret.proof = <<Hex0x(call.layers[1][5]), Hex0x(call.layers[2][3]),
                     Hex0x(call.layers[3][1])>>
    /\ call.layers[1][5] # call.layers[1][4]
    /\ call.layers[3][1] # call.layers[3][2]

\* ------------------------------------------------ tree-building termination
\* build_layers returned: the last layer, and no layer before it, has one
\* node; the layers start with the leaves and are what the call returns
StoppedAtOneNode ==
    bpc = "returned" =>
        /\ bl_layers # <<>>
        /\ bl_layers[1] = bl_leaves
        /\ Len(Last(bl_layers)) = 1
        /\ \A k \in 1..(Len(bl_layers) - 1) : Len(bl_layers[k]) > 1
        /\ bl_layers = build_layers(bl_leaves).layers

\* a step of the loop: with more than one node in the last layer it appends
\* one layer, shorter than the last and not empty, and goes on; with one
\* node it appends nothing
IterationShrinks ==
    (bpc = "while") =>
        IF Len(Last(bl_layers)) > 1
        THEN /\ bpc' = "while"
             /\ Len(bl_layers') = Len(bl_layers) + 1
             /\ SubSeq(bl_layers', 1, Len(bl_layers)) = bl_layers
             /\ Len(Last(bl_layers')) < Len(Last(bl_layers))
             /\ Len(Last(bl_layers')) >= 1
        ELSE /\ bpc' = "returned"
             /\ bl_layers' = bl_layers

\* C25: for every non-empty leaf list build_layers terminates; each loop
\* iteration appends a strictly shorter layer while the last layer has more
\* than one node; it stops exactly when a layer with one node has been
\* produced.
BuildTerminates ==
    /\ []StoppedAtOneNode
    /\ [][IterationShrinks]_vars
    /\ (bpc = "enter" /\ bl_leaves # <<>>) ~> (bpc = "returned")

\* five leaves: three iterations, layers of 5, 3, 2 and 1 nodes
BuildTerminatesWitness ==
    /\ bpc = "returned"
    /\ Len(bl_layers) = 4
    /\ Len(bl_layers[1]) = 5
    /\ Len(bl_layers[2]) = 3
    /\ Len(bl_layers[3]) = 2
    /\ Len(bl_layers[4]) = 1

\* ------------------------------------------------------ index and leaf
\* the index an entry of the written claims map records, as a number
EntryIndex(account) == SmallInt(output_json.claims[account].index)

\* C26: in a written document, for every account of the claims map the
\* recorded index i is a position of layer 0, layers[0][i] is the leaf hash of
\* (account, recorded amountWei), the recorded proof is get_proof(layers, i)
\* for that i, and the leaf is the same whatever index hash_leaf is given.
IndexLocatesLeaf ==
    Written =>
        \A account \in DOMAIN output_json.claims :
            LET i == EntryIndex(account)
            IN  /\ i < Len(layers[1])
                /\ layers[1][i + 1] = EntryLeaf(account)
                /\ get_proof(layers, i).raised = "none"
                /\ output_json.claims[account].proof = get_proof(layers, i).proof
                /\ \A k \in 0..MaxRows :
                      hash_leaf(k, account,
                                IntOfDigits(output_json.claims[account].amountWei))
                          = layers[1][i + 1]

\* a document from four rows: the second has a zero amount, the third
\* repeats the account of the first; the entry of that account records the
\* index of the later row, the entry of the fourth row index 2
IndexLocatesLeafWitness ==
    /\ Written
    /\ Len(rows) = 4
    /\ ZeroRowPositions = {2}
    /\ RowAccount(rows[1]) = RowAccount(rows[3])
    /\ Cardinality(DOMAIN output_json.claims) = 2
    /\ EntryIndex(RowAccount(rows[1])) = 1
    /\ EntryIndex(RowAccount(rows[4])) = 2
    /\ Len(output_json.claims[RowAccount(rows[4])].proof) = 2

\* ------------------------------------------------------------ row accounting
\* the rows main rejects
RejectedRowPositions ==
    { i \in 1..Len(rows) : ~RowAccepted(rows[i], argv_unit) }

\* the messages of the four checks of the row loop
RowErrors ==
    {"empty wallet address", "invalid address", "empty rewardTotal",
     "bad rewardTotal"}

\* the messages of a run that ends at the header, before the row loop
HeaderErrors ==
    {"Missing required column wallet", "Missing required column rewardTotal"}

\* C27: in every written document includedWallets + skippedZeroAmountWallets
\* = inputRows; every input row is a leaf (non-zero amount) or is counted as
\* skipped (zero amount); a row that is neither ends the run at that row,
\* without a document.
RowAccounting ==
    /\ pc = "rows" => Len(values) + skipped_zero = row_idx
    /\ Written =>
          /\ output_json.stats.includedWallets
                + output_json.stats.skippedZeroAmountWallets
                = output_json.stats.inputRows
          /\ output_json.stats.inputRows = Len(input_csv.rows)
          /\ output_json.stats.includedWallets = Len(layers[1])
          /\ output_json.stats.includedWallets = Cardinality(NonZeroRowPositions)
          /\ output_json.stats.skippedZeroAmountWallets
                = Cardinality(ZeroRowPositions)
          /\ RejectedRowPositions = {}
    /\ (RejectedRowPositions # {} /\ exit_msg \notin HeaderErrors) =>
          /\ ~Written
          /\ pc \in {"rows", "exit"}
          /\ \A i \in RejectedRowPositions : row_idx < i
          /\ pc = "exit" =>
                /\ exit_msg \in RowErrors
                /\ row_idx + 1 \in RejectedRowPositions
    /\ (pc = "exit" /\ exit_msg \in RowErrors) =>
          row_idx + 1 \in RejectedRowPositions

\* a document from five rows, three of them with a zero amount
RowAccountingWitness ==
    /\ Written
    /\ output_json.stats.inputRows = 5
    /\ output_json.stats.skippedZeroAmountWallets = 3
    /\ output_json.stats.includedWallets = 2
    /\ ZeroRowPositions = {1, 3, 5}

\* --------------------------------------------------- claims map and tree
\* C28: in every written document the claims map has includedWallets
\* entries (the number of leaves of layer 0) and the indexes its entries
\* record are exactly 0 .. includedWallets - 1.
ClaimsMatchTree ==
    Written =>
        /\ output_json.stats.includedWallets = Len(layers[1])
        /\ Cardinality(DOMAIN output_json.claims)
              = output_json.stats.includedWallets
        /\ { EntryIndex(a) : a \in DOMAIN output_json.claims }
              = 0..(output_json.stats.includedWallets - 1)

====
